---- MODULE Spec2Model ----
(***************************************************************************)
(* Model of the two OIDC callback handlers of ghost-keycloak-bridge:       *)
(*   - staff  /auth/admin/callback  (src/src/routes/staff.js, lines 85-194)*)
(*   - member /auth/member/callback (src/src/server.js, lines 300-378)     *)
(* together with the shared store they read and write (users, settings,    *)
(* sessions, tokens) and the platform's member store behind the Admin API. *)
(*                                                                         *)
(* A handler is an async function: every `await` is a point where another  *)
(* request may run.  One action of the model is "the awaited call takes    *)
(* effect and returns (or throws), and the handler runs on to its next     *)
(* await or to its response".                                              *)
(*                                                                         *)
(* Time is counted in seconds: the source's 15552000000 ms is 15552000 s   *)
(* and its 3600000 ms is 3600 s (TLC's integers are 32 bits wide).         *)
(***************************************************************************)
EXTENDS Integers, Sequences, FiniteSets, TLC

(***************************************************************************)
(* Bounds of the model.                                                    *)
(***************************************************************************)
\* Number of callback requests the service receives in one behaviour.
MaxReq == 2

Reqs == 1..MaxReq

\* Values and secrets handed to signCookie: strings of at most MaxValueLen
\* characters, the separator character among them.
MaxValueLen == 3
ValueChars == {"a", "b", "."}
SignedValues ==
  UNION { [1..n -> ValueChars] : n \in 0..MaxValueLen }
SigningSecrets == {"secret-1", "secret-2"}

\* Claimed emails as texts: strings of at most MaxEmailLen characters, a
\* letter in both cases and the quote character among them.
MaxEmailLen == 2
EmailChars == {"a", "A", "'"}
EmailTexts == UNION { [1..n -> EmailChars] : n \in 1..MaxEmailLen }

(***************************************************************************)
(* Values.                                                                 *)
(***************************************************************************)
\* JavaScript's undefined and SQL/JSON null, as seen by the handlers.
Undefined == "<undefined>"
NullValue == "<null>"
\* No row for the key in the settings table.
NoRow == "<no-row>"

\* The identities the provider can assert: email and display name claims.
Claims ==
  { [email |-> "alice@example.com", name |-> "Alice"],
    [email |-> "bob@example.com",   name |-> Undefined] }

Emails == { c.email : c \in Claims }

\* users.status values of the platform ("inactive" is the deactivated one).
Statuses == {"active", "warn-1", "warn-2", "warn-3", "locked", "inactive"}

\* users.id of the row holding an email (the platform keeps email unique).
UserIdOf(email) ==
  IF email = "alice@example.com" THEN "user-alice" ELSE "user-bob"

UserRow(email, status) ==
  [id |-> UserIdOf(email), email |-> email, status |-> status]

\* The contents the platform's users table may have.
UserTables ==
  { { UserRow("alice@example.com", "active"),
      UserRow("bob@example.com", "locked") },
    { UserRow("alice@example.com", "warn-1"),
      UserRow("bob@example.com", "inactive") },
    { UserRow("alice@example.com", "inactive"),
      UserRow("bob@example.com", "warn-3") },
    { UserRow("alice@example.com", "warn-2") } }

\* The value of settings.admin_session_secret: no row, a NULL value, a string.
SecretSettings == {NoRow, NullValue, "ghost-secret-1"}

\* crypto.randomBytes(24) rendered URL-safe: any value of the space may come.
OpaqueValues == {"opaqueA", "opaqueB"}
\* crypto.randomBytes(12) as hex, and crypto.randomUUID().
ObjectIds == {"objectid-1"}
Uuids == {"uuid-1"}

\* BLOG_PUBLIC_URL with its trailing slash removed.
BlogUrl == "https://blog.example.com"


\* The provider's discovered end_session_endpoint (absent for a provider that
\* publishes none), the client id of the member realm, and the values a
\* request's kc_member_id_token cookie can have (Undefined: no such cookie).
EndSessionEndpoints ==
  { Undefined,
    "https://keycloak.example.com/realms/members/protocol/openid-connect/logout" }
MemberClientId == "ghost-members"
MemberCallbackUrl == "https://blog.example.com/auth/member/callback"

\* The provider's discovered authorization_endpoint, as the sequence of its
\* origin and path segments: a Keycloak endpoint, a Keycloak endpoint under
\* the legacy /auth prefix, and another product's endpoint.
AuthorizationEndpoints ==
  { <<"https://keycloak.example.com", "/realms", "/members", "/protocol",
      "/openid-connect", "/auth">>,
    <<"https://keycloak.example.com", "/auth", "/realms", "/members",
      "/protocol", "/openid-connect", "/auth">>,
    <<"https://idp.example.com", "/oauth2", "/authorize">> }

\* req.query.action of a login request (Undefined: no such parameter).
LoginActions == {Undefined, "signup", "login", "SIGNUP"}
IdTokenCookieValues == {Undefined, "", "id-token-alice", "id-token-bob"}

\* What one request may carry in its headers and socket.  A header that is a
\* comma-separated chain is the sequence of its hops; <<>> is an absent header.
HeaderSets ==
  { [xRealIp |-> <<"198.51.100.4">>,
     xForwardedFor |-> <<"203.0.113.7", " 10.0.0.1">>,
     remoteAddress |-> <<"10.0.0.9">>,
     userAgent |-> "Mozilla/5.0 (X11)"],
    [xRealIp |-> <<>>,
     xForwardedFor |-> <<"203.0.113.7 ", " 10.0.0.1">>,
     remoteAddress |-> <<"10.0.0.9">>,
     userAgent |-> Undefined] }

\* Header and socket values for the address extraction on its own: each
\* source absent, a single address, or a chain, with and without blanks.
RealIpValues ==
  { <<>>, <<"198.51.100.4">>, <<"198.51.100.4", " 10.0.0.1">>,
    <<"203.0.113.7 ", " 10.0.0.1">> }
ForwardedForValues ==
  { <<>>, <<"203.0.113.7">>, <<" 10.0.0.1">>,
    <<"203.0.113.7", " 10.0.0.1">>, <<"203.0.113.7 ", " 10.0.0.1">> }
RemoteAddresses == { <<>>, <<"10.0.0.9">> }
HeaderInputs ==
  [xRealIp : RealIpValues, xForwardedFor : ForwardedForValues,
   remoteAddress : RemoteAddresses,
   userAgent : {Undefined, "Mozilla/5.0 (X11)"}]

(***************************************************************************)
(* Program constants.                                                      *)
(***************************************************************************)
\* 180 days: 15552000000 ms in the source, in seconds here.
SessionMaxAgeSec == 15552000

\* Lifetime of the kc_member_id_token cookie: 3600000 ms in the source.
IdTokenMaxAgeSec == 3600

\* The status list of the staff lookup's WHERE clause.
AcceptedStatuses_widened == Statuses
AcceptedStatuses == {"active", "warn-1", "warn-2", "warn-3", "locked"}

(***************************************************************************)
(* The store: query(sql, params) of lib/db.js applied to the statements    *)
(* the handlers send.  A query either returns its rows or rejects with the *)
(* driver's error; the rejection is an outcome the actions choose.         *)
(***************************************************************************)
RECURSIVE SetToSeq(_)
SetToSeq(S) ==
  IF S = {} THEN <<>>
  ELSE LET x == CHOOSE x \in S : TRUE IN <<x>> \o SetToSeq(S \ {x})

\* SELECT id FROM users WHERE email = ? AND status IN (...)
SelectStaffUser_anyStatus(tbl, email) ==
  SetToSeq({ [id |-> u.id] : u \in { v \in tbl : v.email = email } })
SelectStaffUser(tbl, email) ==
  SetToSeq({ [id |-> u.id] :
             u \in { v \in tbl : v.email = email
                                 /\ v.status \in AcceptedStatuses } })

\* The statements handed to query(sql, params): the text, cut at its
\* placeholders and with runs of white space written as one space, and the
\* values bound to them.
SelectUserStatement_interpolated(email) ==
  [op |-> "SELECT users",
   sql |-> <<"SELECT id FROM users WHERE email = '", email,
             "' AND status IN ('active', 'warn-1', 'warn-2', 'warn-3', 'locked')">>,
   params |-> <<>>]
SelectUserStatement(email) ==
  [op |-> "SELECT users",
   sql |-> <<"SELECT id FROM users WHERE email = ", "?",
             " AND status IN ('active', 'warn-1', 'warn-2', 'warn-3', 'locked')">>,
   params |-> <<email>>]

SelectSecretStatement ==
  [op |-> "SELECT settings",
   sql |-> <<"SELECT value FROM settings WHERE `key` = 'admin_session_secret'">>,
   params |-> <<>>]

InsertSessionStatement(row) ==
  [op |-> "INSERT sessions",
   sql |-> <<"INSERT INTO sessions (id, session_id, user_id, session_data, created_at, updated_at) VALUES (",
             "?", ", ", "?", ", ", "?", ", ", "?", ", ", "?", ", ", "?", ")">>,
   params |-> <<row.id, row.session_id, row.user_id, row.session_data,
                row.created_at, row.updated_at>>]

InsertTokenStatement(row) ==
  [op |-> "INSERT tokens",
   sql |-> <<"INSERT INTO tokens (id, token, uuid, data, created_at, updated_at, used_count, otc_used_count) VALUES (",
             "?", ", ", "?", ", ", "?", ", ", "?", ", ", "?", ", ", "?",
             ", 0, 0)">>,
   params |-> <<row.id, row.token, row.uuid, row.data,
                row.created_at, row.updated_at>>]

\* SELECT value FROM settings WHERE `key` = 'admin_session_secret'
SelectSessionSecret(setting) ==
  IF setting = NoRow THEN <<>> ELSE <<[value |-> setting]>>

(***************************************************************************)
(* signCookie(val, secret): 's:' + val + '.' + base64(HMAC-SHA256) without *)
(* padding.  The digest is a symbolic term of its key and message.         *)
(* createHmac throws a TypeError when the key is not a string.             *)
(***************************************************************************)
HmacSha256(secret, val) == [alg |-> "sha256", key |-> secret, msg |-> val]

NoSignature == [alg |-> "", key |-> "", msg |-> ""]

signCookie_unkeyed(val, secret) ==
  [prefix |-> "s:", value |-> val, separator |-> ".",
   signature |-> HmacSha256("", val)]
signCookie(val, secret) ==
  [prefix |-> "s:", value |-> val, separator |-> ".",
   signature |-> HmacSha256(secret, val)]

signCookieThrows(secret) == secret = NullValue

\* A string is a sequence of pieces: a character, or the base64 text of a
\* digest (which holds letters, digits, '+' and '/' only, so no '.').
NoMac == [alg |-> "none", key |-> "", msg |-> <<>>]
Ch(c) == [ch |-> c, mac |-> NoMac]
Digest(m) == [ch |-> "", mac |-> m]
Chars(str) == [i \in DOMAIN str |-> Ch(str[i])]
Text(pieces) == [i \in DOMAIN pieces |-> pieces[i].ch]

\* The string 's:' + val + '.' + signature that signCookie returns.
Wire_noSeparator(signed) ==
  <<Ch("s"), Ch(":")>> \o Chars(signed.value) \o <<Digest(signed.signature)>>
Wire(signed) ==
  <<Ch("s"), Ch(":")>> \o Chars(signed.value) \o <<Ch(signed.separator)>>
    \o <<Digest(signed.signature)>>

\* input.lastIndexOf('.'), counted from 1; 0 when there is none.
LastIndexOf(input, c) ==
  LET at == { i \in DOMAIN input : input[i] = Ch(c) }
  IN IF at = {} THEN 0 ELSE CHOOSE i \in at : \A j \in at : j <= i

\* input.slice(0, input.lastIndexOf('.')); slice(0, -1) drops the last piece.
TentativeValue(input) ==
  LET dot == LastIndexOf(input, ".")
  IN IF dot = 0 THEN SubSeq(input, 1, Len(input) - 1)
     ELSE SubSeq(input, 1, dot - 1)

\* The reference verifier, cookieSignature.unsign(input, secret): sign the
\* text before the last '.' again and compare with the input; the value on
\* a match, false otherwise.
Unsigned(v) == [ok |-> TRUE, value |-> v]
UnsignFailed == [ok |-> FALSE, value |-> <<>>]
unsign(input, secret) ==
  LET tentative == Text(TentativeValue(input))
      expected == Chars(tentative) \o <<Ch(".")>>
                    \o <<Digest(HmacSha256(secret, tentative))>>
  IN IF expected = input THEN Unsigned(tentative) ELSE UnsignFailed

\* signed.slice(2): the signed string without its 's:' prefix.
WithoutPrefix(wire) == SubSeq(wire, 3, Len(wire))

\* A cookie value that is a plain string.
PlainValue(v) ==
  [prefix |-> "", value |-> v, separator |-> "", signature |-> NoSignature]

(***************************************************************************)
(* Session forging, staff.js lines 119-157.                                *)
(***************************************************************************)
\* new Date(Date.now() + 15552000000)
ExpiresAt_short(now) == now + 1555200
ExpiresAt(now) == now + SessionMaxAgeSec

\* String.prototype.trim on the hop strings of the model.
Trim(s) ==
  CASE s = "203.0.113.7 " -> "203.0.113.7"
    [] s = " 10.0.0.1"    -> "10.0.0.1"
    [] OTHER              -> s

\* x-real-ip || x-forwarded-for || socket.remoteAddress || '127.0.0.1',
\* then the first hop of a comma-separated chain, trimmed.
ChosenAddress_forwardedFirst(h) ==
  IF h.xForwardedFor # <<>> THEN h.xForwardedFor
  ELSE IF h.xRealIp # <<>> THEN h.xRealIp
  ELSE IF h.remoteAddress # <<>> THEN h.remoteAddress
  ELSE <<"127.0.0.1">>
ChosenAddress(h) ==
  IF h.xRealIp # <<>> THEN h.xRealIp
  ELSE IF h.xForwardedFor # <<>> THEN h.xForwardedFor
  ELSE IF h.remoteAddress # <<>> THEN h.remoteAddress
  ELSE <<"127.0.0.1">>

\* if (userIp.includes(',')) userIp = userIp.split(',')[0].trim()
FirstHop(chosen) ==
  IF Len(chosen) > 1 THEN Trim(chosen[1]) ELSE chosen[1]

ClientIp(h) == FirstHop(ChosenAddress(h))

\* req.headers['user-agent'] || 'Mozilla/5.0'
UserAgent(h) == IF h.userAgent = Undefined THEN "Mozilla/5.0" ELSE h.userAgent

\* The JSON document stored in sessions.session_data.
SessionData(userId, now, h) ==
  [cookie |-> [originalMaxAge |-> SessionMaxAgeSec,
               expires |-> ExpiresAt(now),
               secure |-> TRUE,
               httpOnly |-> TRUE,
               path |-> "/ghost",
               sameSite |-> "none"],
   user_id |-> userId,
   origin |-> BlogUrl,
   user_agent |-> UserAgent(h),
   ip |-> ClientIp(h),
   verified |-> TRUE]

\* The parameters of INSERT INTO sessions (...).
SessionRow_sharedUser(rowId, sessionId, userId, now, h) ==
  [id |-> rowId, session_id |-> sessionId, user_id |-> "user-alice",
   session_data |-> SessionData("user-alice", now, h),
   created_at |-> now, updated_at |-> now]
SessionRow(rowId, sessionId, userId, now, h) ==
  [id |-> rowId, session_id |-> sessionId, user_id |-> userId,
   session_data |-> SessionData(userId, now, h),
   created_at |-> now, updated_at |-> now]

\* res.cookie('ghost-admin-api-session', signedCookie, {...})
AdminSessionCookie_lax(signed) ==
  [name |-> "ghost-admin-api-session", value |-> signed,
   httpOnly |-> TRUE, secure |-> TRUE, path |-> "/ghost",
   maxAge |-> SessionMaxAgeSec, sameSite |-> "lax"]
AdminSessionCookie(signed) ==
  [name |-> "ghost-admin-api-session", value |-> signed,
   httpOnly |-> TRUE, secure |-> TRUE, path |-> "/ghost",
   maxAge |-> SessionMaxAgeSec, sameSite |-> "none"]

(***************************************************************************)
(* Responses.  A URL is the sequence of the pieces it is concatenated of.  *)
(***************************************************************************)
NoResponse ==
  [status |-> 0, location |-> <<>>, body |-> <<>>, cookies |-> <<>>]

\* res.redirect(url) on a response that already carries `cookies`.
Redirect(url, cookies) ==
  [status |-> 302, location |-> url, body |-> <<>>, cookies |-> cookies]

StaffLoginEntry == "/auth/admin/login"

UserNotFoundLocation_fatal == <<StaffLoginEntry, "?error=", "fatal">>
UserNotFoundLocation == <<StaffLoginEntry, "?error=", "user_not_found">>

ConfigErrorLocation_generic == <<StaffLoginEntry, "?error=", "fatal">>
ConfigErrorLocation == <<StaffLoginEntry, "?error=", "fatal_config">>

FatalLocation_leaky == <<StaffLoginEntry, "?error=", "user_not_found">>
FatalLocation == <<StaffLoginEntry, "?error=", "fatal">>

AdminEntryLocation == <<BlogUrl, "/ghost/">>


\* res.status(500).send(`Authentication failed: ${err.message}`) on a
\* response that already carries `cookies`.
MemberFailure_redirect(message, cookies) ==
  [status |-> 302, location |-> <<BlogUrl>>, body |-> <<>>,
   cookies |-> cookies]
MemberFailure_ok(message, cookies) ==
  [status |-> 200, location |-> <<>>,
   body |-> <<"Authentication failed: ">> \o message, cookies |-> cookies]
MemberFailure(message, cookies) ==
  [status |-> 500, location |-> <<>>,
   body |-> <<"Authentication failed: ">> \o message, cookies |-> cookies]

\* res.clearCookie(name, options): the cookie with an empty value, expiring
\* at new Date(1), on options.path or '/'.
ClearedCookie_memberPath(name, path) ==
  [name |-> name, value |-> "", path |-> "/auth/member", expires |-> 1]
ClearedCookie(name, path) ==
  [name |-> name, value |-> "", path |-> path, expires |-> 1]

\* URLSearchParams' encoding of a parameter value.  ID tokens are made of
\* letters, digits, '-', '_' and '.', which it leaves as they are.
FormEncode(v) ==
  CASE v = BlogUrl -> "https%3A%2F%2Fblog.example.com"
    [] v = MemberCallbackUrl ->
         "https%3A%2F%2Fblog.example.com%2Fauth%2Fmember%2Fcallback"
    [] v = "openid email profile" -> "openid+email+profile"
    [] OTHER -> v

\* endpoint.replace(/\/auth$/, '/registrations')
RewriteToRegistration_firstAuth(endpoint) ==
  LET at == { i \in DOMAIN endpoint : endpoint[i] = "/auth" }
  IN IF at = {} THEN endpoint
     ELSE [endpoint EXCEPT
             ![CHOOSE i \in at : \A j \in at : i <= j] = "/registrations"]
RewriteToRegistration(endpoint) ==
  IF endpoint[Len(endpoint)] = "/auth"
  THEN [endpoint EXCEPT ![Len(endpoint)] = "/registrations"]
  ELSE endpoint

\* new URLSearchParams({client_id, redirect_uri, response_type, scope})
AuthorizationParams ==
  <<"client_id=", FormEncode(MemberClientId),
    "&redirect_uri=", FormEncode(MemberCallbackUrl),
    "&response_type=", FormEncode("code"),
    "&scope=", FormEncode("openid email profile")>>

\* `${endpoint}?${params.toString()}` of the login route.
LoginLocation(endpoint, action) ==
  (IF action = "signup" THEN RewriteToRegistration(endpoint) ELSE endpoint)
    \o <<"?">> \o AuthorizationParams

\* idToken is truthy: the cookie is there and its value is not empty.
HasIdToken(idToken) == idToken \notin {Undefined, ""}

\* `${endSessionEndpoint}?${params.toString()}`
EndSessionLocation_noHint(endpoint, idToken) ==
  <<endpoint, "?", "client_id=", FormEncode(MemberClientId),
    "&post_logout_redirect_uri=", FormEncode(BlogUrl)>>
EndSessionLocation(endpoint, idToken) ==
  <<endpoint, "?", "client_id=", FormEncode(MemberClientId),
    "&post_logout_redirect_uri=", FormEncode(BlogUrl)>>
    \o (IF HasIdToken(idToken)
        THEN <<"&id_token_hint=", FormEncode(idToken)>> ELSE <<>>)

\* The redirect of the logout: to the end-session endpoint when there is
\* one, else to the blog.
LogoutLocation(endpoint, idToken) ==
  IF endpoint # Undefined THEN EndSessionLocation(endpoint, idToken)
  ELSE <<BlogUrl>>

MemberEntryLocation_fixed(token) ==
  <<BlogUrl, "/members/?token=", "opaqueA">>
MemberEntryLocation(token) == <<BlogUrl, "/members/?token=", token>>

\* res.cookie('kc_member_id_token', tokenSet.id_token, {...}); no path is
\* given, so the cookie gets Express' default path '/'.
IdTokenCookie_callbackPath(idToken) ==
  [name |-> "kc_member_id_token", value |-> PlainValue(idToken),
   httpOnly |-> TRUE, secure |-> TRUE, path |-> "/auth/member/callback",
   maxAge |-> IdTokenMaxAgeSec, sameSite |-> "Lax"]
IdTokenCookie(idToken) ==
  [name |-> "kc_member_id_token", value |-> PlainValue(idToken),
   httpOnly |-> TRUE, secure |-> TRUE, path |-> "/",
   maxAge |-> IdTokenMaxAgeSec, sameSite |-> "Lax"]

(***************************************************************************)
(* The management API client, createGhostApi (server.js lines 73-174).     *)
(***************************************************************************)
\* JavaScript values that data.members can be.
JsArray(items) == [t |-> "array", items |-> items]
JsUndefined == [t |-> "undefined", items |-> <<>>]
JsNull == [t |-> "null", items |-> <<>>]
JsString == [t |-> "string", items |-> <<>>]

Truthy(v) == v.t \in {"array", "string"}

IsArray(v) == v.t = "array"

\* The JSON bodies a 200 answer to GET /members/ can carry.
BrowseBodies ==
  { "members-list",      \* {"members": [...]}: the platform's real answer
    "no-members-key",    \* {} or another object without a member list
    "errors-object",     \* {"errors": [...]}
    "members-null",      \* {"members": null}
    "members-string",    \* {"members": "unavailable"}
    "json-null" }        \* null

\* The ways apiRequest() throws, with the message of its Error.
ApiFailures ==
  { <<"fetch failed">>,
    <<"Ghost API error ", "503", ": ", "Service Unavailable">> }

\* The filter of the lookup, `email:'${userEmail}'`, for an email given as
\* its characters.
BrowseFilter(email) == <<"email", ":", "'">> \o email \o <<"'">>

\* new URLSearchParams({filter}).toString(), and the platform's decoding of
\* the query string it receives.
PercentEncode(c) ==
  CASE c = "'" -> "%27" [] c = ":" -> "%3A" [] c = "\\" -> "%5C" [] OTHER -> c
PercentDecode(c) ==
  CASE c = "%27" -> "'" [] c = "%3A" -> ":" [] c = "%5C" -> "\\" [] OTHER -> c
QueryString(filter) ==
  <<"filter", "=">> \o [i \in DOMAIN filter |-> PercentEncode(filter[i])]
ReceivedFilter(queryStr) ==
  [i \in 1..(Len(queryStr) - 2) |-> PercentDecode(queryStr[i + 2])]

\* The platform reads the filter as  email:'<literal>' : the literal runs
\* from the opening quote to the next quote that no backslash precedes, a
\* backslash making the character after it part of the literal; text after
\* the closing quote is a syntax error.
RECURSIVE ReadLiteral(_, _, _)
ReadLiteral(filter, i, acc) ==
  IF i > Len(filter) THEN [ok |-> FALSE, literal |-> acc]
  ELSE IF filter[i] = "\\"
  THEN IF i + 1 > Len(filter) THEN [ok |-> FALSE, literal |-> acc]
       ELSE ReadLiteral(filter, i + 2, Append(acc, filter[i + 1]))
  ELSE IF filter[i] = "'" THEN [ok |-> i = Len(filter), literal |-> acc]
  ELSE ReadLiteral(filter, i + 1, Append(acc, filter[i]))

\* The platform's answer to GET /members/?filter=...: an error for a filter
\* it cannot parse, otherwise the stored emails equal to the literal.
PlatformBrowse(stored, queryStr) ==
  LET filter == ReceivedFilter(queryStr)
      read == ReadLiteral(filter, 4, <<>>)
  IN IF Len(filter) < 4 \/ SubSeq(filter, 1, 3) # <<"email", ":", "'">>
        \/ ~read.ok
     THEN [ok |-> FALSE, matches |-> {}]
     ELSE [ok |-> TRUE, matches |-> { m \in stored : m = read.literal }]

\* The platform's answer to filter email:'<email>' for an email without a
\* quote: the members with it.
MatchingMembers(store, email) ==
  SelectSeq(store, LAMBDA m : m.email = email)

\* data.members of a parsed body.
MembersField(body, matches) ==
  CASE body = "members-list"   -> JsArray(matches)
    [] body = "members-string" -> JsString
    [] body = "members-null"   -> JsNull
    [] OTHER                   -> JsUndefined

\* data.members on a null body is a TypeError.
BrowseThrows(body) == body = "json-null"

\* members.browse: return data.members || []
Browse(body, matches) ==
  LET m == MembersField(body, matches)
  IN IF Truthy(m) THEN m ELSE JsArray(<<>>)

\* if (members.length === 0) -> provision
NeedsProvisioning_never(found) == FALSE
NeedsProvisioning_always(found) == TRUE
NeedsProvisioning_oneMatchToo(found) == Len(found.items) <= 1
NeedsProvisioning(found) == Len(found.items) = 0

\* The member the platform stores for members.add({email, name}).
MemberRecord(email, name) == [email |-> email, name |-> name]

\* The member store after POST /members/ with `rec`: the request carries
\* the record only, no condition on the members already stored.
AddMember_upsert(store, rec) ==
  IF \E i \in DOMAIN store : store[i].email = rec.email
  THEN store ELSE Append(store, rec)
AddMember(store, rec) == Append(store, rec)

\* The parameters of INSERT INTO tokens (...).
TokenRow(rowId, token, uuid, email, now) ==
  [id |-> rowId, token |-> token, uuid |-> uuid,
   data |-> [email |-> email, type |-> "signin"],
   created_at |-> now, updated_at |-> now,
   used_count |-> 0, otc_used_count |-> 0]

\* Messages of the errors the collaborators throw.
ExchangeErrors == { <<"invalid_grant">> }
StoreErrors == { <<"connect ECONNREFUSED">> }

\* A table after INSERT INTO ... VALUES (...) of one row: the rows it held,
\* then the new row.
InsertRow_replacing(tbl, row) ==
  Append(SelectSeq(tbl, LAMBDA old : old.id # row.id), row)
InsertRow(tbl, row) == Append(tbl, row)

\* The error object pool.execute rejects with, and no error.
DriverError(message) == [message |-> message, code |-> "ECONNREFUSED"]
NoError == [message |-> <<>>, code |-> Undefined]

\* How pool.execute(sql, params) settles.
Settled(ok, message) ==
  [ok |-> ok, error |-> IF ok THEN NoError ELSE DriverError(message)]

\* query(sql, params): the results when pool.execute resolves; when it
\* rejects, the error is logged and thrown again as it is.
query_suppressing(settled) == [ok |-> TRUE, error |-> NoError]
query(settled) == settled

(***************************************************************************)
(* State.                                                                  *)
(***************************************************************************)
VARIABLES
  users,      \* the platform's users table (read only)
  settings,   \* the value of settings.admin_session_secret (read only)
  sessions,   \* the sessions table, in insertion order
  tokens,     \* the tokens table, in insertion order
  members,    \* the platform's member store, in creation order
  clock,      \* Date.now()
  reqs,       \* the callback requests: position, locals, response, history
  calc,       \* a call of a utility outside the handlers: inputs, results
  svc,        \* the process' module-level state: health.js isStartupComplete
  jar         \* one browser: the cookies it holds, what it received and sent

vars ==
  <<users, settings, sessions, tokens, members, clock, reqs, calc, svc, jar>>

\* One step of a request's history: the call, its argument, its outcome.
Event(op, arg, ok) == [op |-> op, arg |-> arg, ok |-> ok]

\* A request's record.  Besides the handler's locals it keeps its history:
\* trace (the calls made, in order), failedAt (the step that threw), answer
\* (whether the management API answered the lookup with a member list) and
\* rowAt (the position of the row the request inserted, 0 for none) and
\* stmts (the statements it handed to query, in order), driverFailed (the
\* statement pool.execute rejected) and queryError (the error query threw to
\* the handler).  For a logout,
\* idToken is the value of the request's kc_member_id_token cookie and
\* endSession the end-session endpoint the provider's metadata held; for a
\* login, action is req.query.action and authEndpoint the authorization
\* endpoint the metadata held.

\* A browser that holds no cookie and has visited nothing.
EmptyJar == [cookies |-> {}, received |-> <<>>, logouts |-> <<>>]

\* The process once its modules are loaded and start() has reached its
\* first await: let isStartupComplete = false, nothing discovered, the realm
\* routers not mounted, the port not bound.
ServiceAtLoad ==
  [isStartupComplete |-> FALSE, pc |-> "discoverMember", discovered |-> {},
   memberAuthEndpoint |-> <<>>, mounted |-> {}, listening |-> FALSE,
   exitCode |-> 0]

\* No utility call is in progress.
NoCalc == [pc |-> "none"]

IdleRequest ==
  [kind |-> "none", pc |-> "idle", email |-> Undefined, name |-> Undefined,
   idToken |-> Undefined, userId |-> Undefined, secret |-> Undefined,
   sessionId |-> Undefined, token |-> Undefined, matched |-> -1,
   driverFailed |-> "none", queryError |-> NoError,
   endSession |-> Undefined, action |-> Undefined, authEndpoint |-> <<>>,
   answer |-> "none", rowAt |-> 0,
   failedAt |-> "none", resp |-> NoResponse, trace |-> <<>>, stmts |-> <<>>]

Init ==
  /\ users \in UserTables
  /\ settings \in SecretSettings
  /\ sessions = <<>>
  /\ tokens = <<>>
  /\ members = <<>>
  /\ clock = 1
  /\ reqs = [r \in Reqs |-> IdleRequest]
  /\ svc = ServiceAtLoad
  /\ jar = EmptyJar
  /\ calc = NoCalc

\* Requests are numbered in the order they arrive.
Arrives(r) ==
  /\ reqs[r].pc = "idle"
  /\ IF r = 1 THEN TRUE ELSE reqs[r - 1].pc # "idle"

\* The request's record after the handler has answered.
Finish(q, resp) == [q EXCEPT !.pc = "done", !.resp = resp]

(***************************************************************************)
(* Staff callback, staff.js lines 85-194.                                  *)
(***************************************************************************)
\* catch (err): res.redirect('/auth/admin/login?error=fatal')
StaffCatch_silent(q, step) ==
  Finish([q EXCEPT !.failedAt = step,
                   !.trace = @ \o <<Event(step, Undefined, FALSE)>>],
         NoResponse)
StaffCatch(q, step) ==
  Finish([q EXCEPT !.failedAt = step,
                   !.trace = @ \o <<Event(step, Undefined, FALSE),
                                    Event("res.redirect", "fatal", TRUE)>>],
         Redirect(FatalLocation, q.resp.cookies))

\* oidcClient.callback(...) returns or throws; then the users query is sent.
StaffExchange(r) ==
  /\ Arrives(r)
  /\ clock' = clock + 1
  /\ \E ok \in BOOLEAN, c \in Claims :
       LET q == [reqs[r] EXCEPT !.kind = "staff"]
       IN reqs' = [reqs EXCEPT ![r] =
            IF ok
            THEN [q EXCEPT !.pc = "userLookup", !.email = c.email,
                           !.trace = @ \o <<Event("exchange", c.email, TRUE)>>]
            ELSE StaffCatch(q, "exchange")]
  /\ UNCHANGED <<jar, svc, calc, users, settings, sessions, tokens, members>>

\* The users query returns or throws; no row ends the request.
StaffUserLookup(r) ==
  /\ reqs[r].kind = "staff"
  /\ reqs[r].pc = "userLookup"
  /\ \E ok \in BOOLEAN, e \in StoreErrors :
       LET out == query(Settled(ok, e))
           q == [reqs[r] EXCEPT
                   !.stmts = Append(@, SelectUserStatement(reqs[r].email)),
                   !.driverFailed = IF ok THEN @ ELSE "SELECT users",
                   !.queryError = out.error]
           rows == IF ok THEN SelectStaffUser(users, q.email) ELSE <<>>
           seen == [q EXCEPT !.trace =
                      @ \o <<Event("SELECT users", q.email, TRUE)>>]
       IN reqs' = [reqs EXCEPT ![r] =
            IF ~out.ok THEN StaffCatch(q, "SELECT users")
            ELSE IF Len(rows) = 0
            THEN Finish([seen EXCEPT !.trace = @ \o
                           <<Event("res.redirect", "user_not_found", TRUE)>>],
                        Redirect(UserNotFoundLocation, q.resp.cookies))
            ELSE [seen EXCEPT !.pc = "secretLookup", !.userId = rows[1].id]]
  /\ UNCHANGED <<jar, svc, calc, users, settings, sessions, tokens, members, clock>>

\* The settings query returns or throws; no row ends the request.
StaffSecretLookup(r) ==
  /\ reqs[r].kind = "staff"
  /\ reqs[r].pc = "secretLookup"
  /\ \E ok \in BOOLEAN, e \in StoreErrors :
       LET out == query(Settled(ok, e))
           q == [reqs[r] EXCEPT
                   !.stmts = Append(@, SelectSecretStatement),
                   !.driverFailed = IF ok THEN @ ELSE "SELECT settings",
                   !.queryError = out.error]
           rows == IF ok THEN SelectSessionSecret(settings) ELSE <<>>
           seen == [q EXCEPT !.trace =
                      @ \o <<Event("SELECT settings", Undefined, TRUE)>>]
       IN reqs' = [reqs EXCEPT ![r] =
            IF ~out.ok THEN StaffCatch(q, "SELECT settings")
            ELSE IF Len(rows) = 0
            THEN Finish([seen EXCEPT !.trace = @ \o
                           <<Event("res.redirect", "fatal_config", TRUE)>>],
                        Redirect(ConfigErrorLocation, q.resp.cookies))
            ELSE [seen EXCEPT !.pc = "sessionInsert",
                              !.secret = rows[1].value]]
  /\ UNCHANGED <<jar, svc, calc, users, settings, sessions, tokens, members, clock>>

\* The session is forged and its INSERT returns or throws; then the cookie
\* is signed and set and the browser is sent to the admin area.
StaffSessionInsert(r) ==
  /\ reqs[r].kind = "staff"
  /\ reqs[r].pc = "sessionInsert"
  /\ \E ok \in BOOLEAN, sid \in OpaqueValues, rowId \in ObjectIds,
        h \in HeaderSets, e \in StoreErrors :
       LET row == SessionRow(rowId, sid, reqs[r].userId, clock, h)
           out == query(Settled(ok, e))
           q == [reqs[r] EXCEPT
                   !.stmts = Append(@, InsertSessionStatement(row)),
                   !.driverFailed = IF ok THEN @ ELSE "INSERT sessions",
                   !.queryError = out.error]
           forged == [q EXCEPT !.sessionId = sid]
           stored == [forged EXCEPT !.rowAt = Len(sessions) + 1, !.trace =
                        @ \o <<Event("INSERT sessions", sid, TRUE)>>]
           cookie == AdminSessionCookie(signCookie(sid, q.secret))
       IN /\ sessions' = IF ok THEN InsertRow(sessions, row) ELSE sessions
          /\ reqs' = [reqs EXCEPT ![r] =
               IF ~out.ok THEN StaffCatch(q, "INSERT sessions")
               ELSE IF signCookieThrows(q.secret)
               THEN StaffCatch(stored, "signCookie")
               ELSE Finish([stored EXCEPT !.trace = @ \o
                              <<Event("res.cookie", cookie.name, TRUE),
                                Event("res.redirect", "/ghost/", TRUE)>>],
                           Redirect(AdminEntryLocation,
                                    Append(q.resp.cookies, cookie)))]
  /\ UNCHANGED <<jar, svc, calc, users, settings, tokens, members, clock>>


(***************************************************************************)
(* Member callback, server.js lines 300-378.                               *)
(***************************************************************************)
\* The ID token the provider issues with a set of claims.
IdTokenOf(c) ==
  IF c.email = "alice@example.com" THEN "id-token-alice" ELSE "id-token-bob"

\* catch (err): res.status(500).send(`Authentication failed: ...`)
MemberCatch(q, step, message) ==
  Finish([q EXCEPT !.failedAt = step,
                   !.trace = @ \o <<Event(step, q.email, FALSE),
                                    Event("res.send", "500", TRUE)>>],
         MemberFailure(message, q.resp.cookies))

\* authorizationCodeGrant(...) returns or throws; on return the ID token
\* cookie is set and the member lookup is sent.
MemberExchange(r) ==
  /\ Arrives(r)
  /\ clock' = clock + 1
  /\ \E ok \in BOOLEAN, c \in Claims, e \in ExchangeErrors :
       LET q == [reqs[r] EXCEPT !.kind = "member"]
           cookie == IdTokenCookie(IdTokenOf(c))
       IN reqs' = [reqs EXCEPT ![r] =
            IF ok
            THEN [q EXCEPT !.pc = "browse", !.email = c.email,
                           !.name = c.name, !.idToken = IdTokenOf(c),
                           !.resp.cookies = Append(@, cookie),
                           !.trace = @ \o
                             <<Event("exchange", c.email, TRUE),
                               Event("res.cookie", cookie.name, TRUE)>>]
            ELSE MemberCatch(q, "exchange", e)]
  /\ UNCHANGED <<jar, svc, calc, users, settings, sessions, tokens, members>>

\* The handler's steps once ghost.members.browse has returned `found`.
AfterBrowse(q, found) ==
  LET seen == [q EXCEPT !.matched = Len(found.items),
                        !.trace = @ \o
                          <<Event("members.browse", q.email, TRUE)>>]
  IN IF ~IsArray(found)
     THEN MemberCatch(q, "Array.isArray",
                      <<"Ghost API returned invalid response">>)
     ELSE IF NeedsProvisioning(found)
     THEN [seen EXCEPT !.pc = "add"]
     ELSE [seen EXCEPT !.pc = "tokenInsert"]

\* ghost.members.browse({filter: email:'<email>'}) returns or throws.
MemberBrowse(r) ==
  /\ reqs[r].kind = "member"
  /\ reqs[r].pc = "browse"
  /\ LET q == reqs[r]
     IN \/ \E f \in ApiFailures :
             reqs' = [reqs EXCEPT ![r] =
               MemberCatch(q, "members.browse",
                           <<"Ghost API unreachable: ">> \o f)]
        \/ \E body \in BrowseBodies :
             reqs' = [reqs EXCEPT ![r] =
               LET a == [q EXCEPT !.answer =
                           IF body = "members-list" THEN "list" ELSE "other"]
               IN IF BrowseThrows(body)
                  THEN MemberCatch(a, "members.browse",
                         <<"Ghost API unreachable: ",
                           "Cannot read properties of null">>)
                  ELSE AfterBrowse(a,
                         Browse(body, MatchingMembers(members, q.email)))]
  /\ UNCHANGED <<jar, svc, calc, users, settings, sessions, tokens, members, clock>>

\* ghost.members.add({email, name}) returns or throws.
MemberAdd(r) ==
  /\ reqs[r].kind = "member"
  /\ reqs[r].pc = "add"
  /\ LET q == reqs[r]
     IN \/ /\ \E f \in ApiFailures :
                reqs' = [reqs EXCEPT ![r] = MemberCatch(q, "members.add", f)]
           /\ UNCHANGED members
        \/ /\ members' = AddMember(members, MemberRecord(q.email, q.name))
           /\ reqs' = [reqs EXCEPT ![r] =
                [q EXCEPT !.pc = "tokenInsert",
                          !.trace = @ \o
                            <<Event("members.add", q.email, TRUE)>>]]
  /\ UNCHANGED <<jar, svc, calc, users, settings, sessions, tokens, clock>>

\* The member store after the catch block has run for request q: the block
\* logs and answers, it makes no management API call.
CatchMembers_compensating(store, q) ==
  SelectSeq(store, LAMBDA m : m.email # q.email)
CatchMembers(store, q) == store

\* The token is generated and its INSERT returns or throws; on return the
\* browser is sent to the member area with the token.
MemberTokenInsert(r) ==
  /\ reqs[r].kind = "member"
  /\ reqs[r].pc = "tokenInsert"
  /\ \E ok \in BOOLEAN, token \in OpaqueValues, rowId \in ObjectIds,
        uuid \in Uuids, e \in StoreErrors :
       LET row == TokenRow(rowId, token, uuid, reqs[r].email, clock)
           out == query(Settled(ok, e))
           q == [reqs[r] EXCEPT
                   !.stmts = Append(@, InsertTokenStatement(row)),
                   !.driverFailed = IF ok THEN @ ELSE "INSERT tokens",
                   !.queryError = out.error]
           made == [q EXCEPT !.token = token]
       IN /\ tokens' = IF ok THEN InsertRow(tokens, row) ELSE tokens
          /\ reqs' = [reqs EXCEPT ![r] =
               IF ~out.ok THEN MemberCatch(q, "INSERT tokens", out.error.message)
               ELSE Finish([made EXCEPT !.rowAt = Len(tokens) + 1,
                                        !.trace = @ \o
                              <<Event("INSERT tokens", token, TRUE),
                                Event("res.redirect", token, TRUE)>>],
                           Redirect(MemberEntryLocation(token),
                                    q.resp.cookies))]
          /\ members' = IF out.ok THEN members ELSE CatchMembers(members, q)
  /\ UNCHANGED <<jar, svc, calc, users, settings, sessions, clock>>

(***************************************************************************)
(* Health probes, health.js (src/unnamed/part_007).                        *)
(***************************************************************************)
\* res.status(...).json({status, checks, reason}) without its timestamp.
Json(status, body) ==
  [status |-> status, location |-> <<>>, body |-> body, cookies |-> <<>>]

\* The answer of GET /startup for a value of isStartupComplete.
StartupAnswer_alwaysStarted(complete) == Json(200, <<"started">>)
StartupAnswer(complete) ==
  IF complete THEN Json(200, <<"started">>) ELSE Json(503, <<"starting">>)

\* How the awaited connectivity check ends: with a value, or rejecting.
CheckReturned(value) == [threw |-> FALSE, value |-> value, message |-> <<>>]
CheckRejected(message) ==
  [threw |-> TRUE, value |-> FALSE, message |-> message]

\* testConnection(): true when query('SELECT 1') returns, false when it
\* throws.
testConnection_rethrowing(settled) ==
  IF query(settled).ok THEN CheckReturned(TRUE)
  ELSE CheckRejected(query(settled).error.message)
testConnection(settled) == CheckReturned(query(settled).ok)

\* A connectivity check that rejects, which testConnection never does: the
\* probes' catch branch is written for it.
RejectingCheck == CheckRejected(<<"Connection timeout">>)

\* The answer of GET /ready and GET /readyz for an outcome of the check.
ReadyAnswer(check) ==
  IF check.threw
  THEN Json(503, <<"not ready", "database=false">> \o check.message)
  ELSE IF check.value
  THEN Json(200, <<"ready", "database=true">>)
  ELSE Json(503, <<"not ready", "database=false",
                   "Database connection failed">>)

\* setStartupComplete()
SetStartupComplete ==
  /\ svc' = [svc EXCEPT !.isStartupComplete = TRUE]
  /\ UNCHANGED <<jar, users, settings, sessions, tokens, members, clock,
                 reqs, calc>>

\* GET /startup: one synchronous handler.
StartupProbe(r) ==
  /\ Arrives(r)
  /\ clock' = clock + 1
  /\ LET q == [reqs[r] EXCEPT !.kind = "startup"]
     IN reqs' = [reqs EXCEPT ![r] =
          Finish([q EXCEPT !.trace = @ \o
                    <<Event("res.json", "startup", TRUE)>>],
                 StartupAnswer(svc.isStartupComplete))]
  /\ UNCHANGED <<jar, svc, calc, users, settings, sessions, tokens, members>>

\* GET /ready or GET /readyz arrives and awaits the connectivity check.
ReadyProbe(r) ==
  /\ Arrives(r)
  /\ clock' = clock + 1
  /\ \E route \in {"ready", "readyz"} :
       reqs' = [reqs EXCEPT ![r] =
         [reqs[r] EXCEPT !.kind = route, !.pc = "testConnection"]]
  /\ UNCHANGED <<jar, svc, calc, users, settings, sessions, tokens, members>>

\* The connectivity check ends and the probe answers.
ReadyCheckEnds(r) ==
  /\ reqs[r].kind \in {"ready", "readyz"}
  /\ reqs[r].pc = "testConnection"
  /\ \E ok \in BOOLEAN, e \in StoreErrors, rejecting \in BOOLEAN :
       LET check == IF rejecting THEN RejectingCheck
                    ELSE testConnection(Settled(ok, e))
           q == [reqs[r] EXCEPT
                   !.driverFailed =
                     IF rejecting \/ ok THEN @ ELSE "SELECT 1",
                   !.answer = IF check.threw THEN "threw"
                              ELSE IF check.value THEN "true" ELSE "false"]
       IN reqs' = [reqs EXCEPT ![r] =
            Finish([q EXCEPT !.trace = @ \o
                      <<Event("testConnection", Undefined, ~check.threw),
                        Event("res.json", q.kind, TRUE)>>],
                   ReadyAnswer(check))]
  /\ UNCHANGED <<jar, svc, calc, users, settings, sessions, tokens, members,
                 clock>>

(***************************************************************************)
(* Member login, server.js lines 240-261: one synchronous handler.         *)
(***************************************************************************)
Login(r) ==
  /\ Arrives(r)
  /\ clock' = clock + 1
  /\ \E action \in LoginActions, endpoint \in AuthorizationEndpoints :
       LET q == [reqs[r] EXCEPT !.kind = "login", !.action = action,
                                !.authEndpoint = endpoint]
       IN reqs' = [reqs EXCEPT ![r] =
            Finish([q EXCEPT !.trace = @ \o
                      <<Event("res.redirect", endpoint[1], TRUE)>>],
                   Redirect(LoginLocation(endpoint, action), <<>>))]
  /\ UNCHANGED <<jar, svc, calc, users, settings, sessions, tokens, members>>

(***************************************************************************)
(* Member logout, server.js lines 267-294: one synchronous handler.        *)
(***************************************************************************)
\* The handler's answer for a value of req.cookies['kc_member_id_token']:
\* res.clearCookie('ghost-members-ssr', {path: '/'}),
\* res.clearCookie('kc_member_id_token'), res.redirect(...).
LogoutResponse(endpoint, idToken) ==
  Redirect(LogoutLocation(endpoint, idToken),
           <<ClearedCookie("ghost-members-ssr", "/"),
             ClearedCookie("kc_member_id_token", "/")>>)

Logout(r) ==
  /\ Arrives(r)
  /\ clock' = clock + 1
  /\ \E idToken \in IdTokenCookieValues, endpoint \in EndSessionEndpoints :
       LET q == [reqs[r] EXCEPT !.kind = "logout", !.idToken = idToken,
                                !.endSession = endpoint]
       IN reqs' = [reqs EXCEPT ![r] =
            Finish([q EXCEPT !.trace = @ \o
                      <<Event("res.clearCookie", "ghost-members-ssr", TRUE),
                        Event("res.clearCookie", "kc_member_id_token", TRUE),
                        Event("res.redirect",
                              IF endpoint # Undefined THEN endpoint
                              ELSE BlogUrl, TRUE)>>],
                   LogoutResponse(endpoint, idToken))]
  /\ UNCHANGED <<jar, svc, calc, users, settings, sessions, tokens, members>>

(***************************************************************************)
(* The bootstrap, start() of server.js (src/unnamed/part_004 lines 51-113), *)
(* and the requests that reach the port.                                    *)
(***************************************************************************)
RealmMounts == {"/auth/member", "/auth/admin"}

\* catch (err): process.exit(1)
FailedService(s) == [s EXCEPT !.pc = "exited", !.exitCode = 1]

\* What start() does, without an await in between, once the second
\* discovery has returned: app.use(...) twice, setStartupComplete(),
\* app.listen(PORT).
StartedService_notMarked(s) ==
  [s EXCEPT !.pc = "listening", !.discovered = @ \cup {"staff"},
            !.mounted = RealmMounts, !.listening = TRUE]
StartedService(s) ==
  [s EXCEPT !.pc = "listening", !.discovered = @ \cup {"staff"},
            !.mounted = RealmMounts, !.isStartupComplete = TRUE,
            !.listening = TRUE]

\* await discovery(MEMBER_KEYCLOAK_ISSUER, ...) returns or throws.
DiscoverMember ==
  /\ svc.pc = "discoverMember"
  /\ \E ok \in BOOLEAN, endpoint \in AuthorizationEndpoints :
       svc' = IF ok
              THEN [svc EXCEPT !.pc = "discoverStaff",
                               !.discovered = @ \cup {"member"},
                               !.memberAuthEndpoint = endpoint]
              ELSE FailedService(svc)
  /\ UNCHANGED <<jar, users, settings, sessions, tokens, members, clock,
                 reqs, calc>>

\* await discovery(STAFF_KEYCLOAK_ISSUER, ...) returns or throws; on return
\* the routers are mounted and the port is bound.
DiscoverStaff ==
  /\ svc.pc = "discoverStaff"
  /\ \E ok \in BOOLEAN :
       svc' = IF ok THEN StartedService(svc) ELSE FailedService(svc)
  /\ UNCHANGED <<jar, users, settings, sessions, tokens, members, clock,
                 reqs, calc>>

\* A request that finds the port unbound is answered by nobody.
Refused(r) ==
  /\ ~svc.listening
  /\ Arrives(r)
  /\ clock' = clock + 1
  /\ reqs' = [reqs EXCEPT ![r] =
       Finish([reqs[r] EXCEPT !.kind = "refused"], NoResponse)]
  /\ UNCHANGED <<jar, svc, calc, users, settings, sessions, tokens, members>>

\* GET /startup reaches the health router, mounted at load.
ServedStartup(r) ==
  /\ svc.listening
  /\ StartupProbe(r)

\* GET /auth/member/login reaches the member router, which was made with
\* the discovered configuration.
ServedLogin(r) ==
  /\ svc.listening
  /\ "/auth/member" \in svc.mounted
  /\ Login(r)
  /\ reqs'[r].authEndpoint = svc.memberAuthEndpoint

\* GET /auth/admin/callback reaches the staff router.
ServedStaffCallback(r) ==
  /\ svc.listening
  /\ "/auth/admin" \in svc.mounted
  /\ StaffExchange(r)

NextServer ==
  \/ DiscoverMember
  \/ DiscoverStaff
  \/ \E r \in Reqs :
       \/ Refused(r)
       \/ ServedStartup(r)
       \/ ServedLogin(r)
       \/ ServedStaffCallback(r)
       \/ StaffUserLookup(r)
       \/ StaffSecretLookup(r)
       \/ StaffSessionInsert(r)

(***************************************************************************)
(* The service.                                                            *)
(***************************************************************************)
Next ==
  \E r \in Reqs :
    \/ StaffExchange(r)
    \/ StaffUserLookup(r)
    \/ StaffSecretLookup(r)
    \/ StaffSessionInsert(r)
    \/ MemberExchange(r)
    \/ MemberBrowse(r)
    \/ MemberAdd(r)
    \/ MemberTokenInsert(r)
    \/ Logout(r)
    \/ Login(r)
    \/ StartupProbe(r)
    \/ ReadyProbe(r)
    \/ ReadyCheckEnds(r)
    \/ (SetStartupComplete /\ r = 1)

Spec == Init /\ [][Next]_vars

\* The staff realm alone: the staff handler reads and writes nothing that
\* the member handler writes.
NextStaff ==
  \E r \in Reqs :
    \/ StaffExchange(r)
    \/ StaffUserLookup(r)
    \/ StaffSecretLookup(r)
    \/ StaffSessionInsert(r)

SpecStaff == Init /\ [][NextStaff]_vars

\* The member realm alone.
NextMember ==
  \E r \in Reqs :
    \/ MemberExchange(r)
    \/ MemberBrowse(r)
    \/ MemberAdd(r)
    \/ MemberTokenInsert(r)

\* Member callbacks that do not overlap: a callback arrives only when every
\* earlier one has been answered.
MemberExchangeAlone(r) ==
  /\ \A r2 \in Reqs : reqs[r2].pc \in {"idle", "done"}
  /\ MemberExchange(r)

NextMemberSerial ==
  \E r \in Reqs :
    \/ MemberExchangeAlone(r)
    \/ MemberBrowse(r)
    \/ MemberAdd(r)
    \/ MemberTokenInsert(r)

\* The member handler never reads the users or the settings table.
InitMember ==
  /\ Init
  /\ users = { UserRow("alice@example.com", "active"),
               UserRow("bob@example.com", "locked") }
  /\ settings = "ghost-secret-1"

SpecMember == InitMember /\ [][NextMember]_vars

SpecMemberSerial == InitMember /\ [][NextMemberSerial]_vars

\* The member realm with its logout route.
NextLogout ==
  \E r \in Reqs :
    \/ MemberExchange(r)
    \/ MemberBrowse(r)
    \/ MemberAdd(r)
    \/ MemberTokenInsert(r)
    \/ Logout(r)

SpecLogout == InitMember /\ [][NextLogout]_vars

\* Both callbacks side by side, on one users table and one secret.
NextCallbacks ==
  \E r \in Reqs :
    \/ StaffExchange(r)
    \/ StaffUserLookup(r)
    \/ StaffSecretLookup(r)
    \/ StaffSessionInsert(r)
    \/ MemberExchange(r)
    \/ MemberBrowse(r)
    \/ MemberAdd(r)
    \/ MemberTokenInsert(r)

SpecCallbacks == InitMember /\ [][NextCallbacks]_vars

\* The callbacks when every awaited collaborator settles: the promise a
\* handler awaits is resolved or rejected, and the event loop then runs the
\* handler's continuation.
CollaboratorsSettle ==
  \A r \in Reqs :
    /\ WF_vars(StaffUserLookup(r))
    /\ WF_vars(StaffSecretLookup(r))
    /\ WF_vars(StaffSessionInsert(r))
    /\ WF_vars(MemberBrowse(r))
    /\ WF_vars(MemberAdd(r))
    /\ WF_vars(MemberTokenInsert(r))

SpecCallbacksLive == Init /\ [][NextCallbacks]_vars /\ CollaboratorsSettle

\* The process from its start, with the requests sent to its port.
SpecServer == InitMember /\ [][NextServer]_vars

\* The health router and the call that marks the startup complete.
NextHealth ==
  \/ SetStartupComplete
  \/ \E r \in Reqs :
       \/ StartupProbe(r)
       \/ ReadyProbe(r)
       \/ ReadyCheckEnds(r)

SpecHealth == InitMember /\ [][NextHealth]_vars

(***************************************************************************)
(* One browser visiting the member realm.  The member router is mounted at *)
(* /auth/member (server.js line 29), so its routes are                      *)
(* /auth/member/callback and /auth/member/logout.  The browser keeps the    *)
(* cookies of the responses it receives and sends, with a request, those    *)
(* whose path covers the request's path and which have not expired.         *)
(***************************************************************************)
MaxLogouts == 2

LogoutRoute == "/auth/member/logout"

\* A path as its segments.
PathSegments(p) ==
  CASE p = "/" -> <<>>
    [] p = "/ghost" -> <<"ghost">>
    [] p = "/auth/member" -> <<"auth", "member">>
    [] p = "/auth/member/callback" -> <<"auth", "member", "callback">>
    [] p = "/auth/member/logout" -> <<"auth", "member", "logout">>

\* The cookie's path covers the request's path.
PathCovers(cookiePath, requestPath) ==
  LET c == PathSegments(cookiePath)
      p == PathSegments(requestPath)
  IN Len(c) <= Len(p) /\ SubSeq(p, 1, Len(c)) = c

\* The instant a Set-Cookie received at `now` expires: res.cookie gives a
\* max-age, res.clearCookie an expiry date.
ExpiryOf(c, now) ==
  IF "maxAge" \in DOMAIN c THEN now + c.maxAge ELSE c.expires

\* The text of a Set-Cookie's value.  res.cookie percent-encodes and the
\* cookie parser decodes; an ID token has no character either touches.
CookieText(c) == IF "maxAge" \in DOMAIN c THEN c.value.value ELSE c.value

\* The cookies held after a Set-Cookie received at `now`: it replaces the
\* held cookie of its name and path; one already expired only removes.
StoreCookie(held, c, now) ==
  LET others == { h \in held : ~(h.name = c.name /\ h.path = c.path) }
  IN IF ExpiryOf(c, now) <= now THEN others
     ELSE others \cup { [name |-> c.name, path |-> c.path,
                          value |-> CookieText(c),
                          expires |-> ExpiryOf(c, now)] }

RECURSIVE StoreCookies(_, _, _)
StoreCookies(held, cs, now) ==
  IF cs = <<>> THEN held
  ELSE StoreCookies(StoreCookie(held, Head(cs), now), Tail(cs), now)

\* The held cookies sent with a request for `path` at `now`.
SentCookies(held, path, now) ==
  { h \in held : PathCovers(h.path, path) /\ h.expires > now }

\* req.cookies[name] of that request: the cookie of the longest path.
RequestCookie(held, name, path, now) ==
  LET sent == { h \in SentCookies(held, path, now) : h.name = name }
  IN IF sent = {} THEN Undefined
     ELSE (CHOOSE h \in sent :
             \A g \in sent :
               Len(PathSegments(g.path)) <= Len(PathSegments(h.path))).value

\* The browser is between two navigations: every request it sent has been
\* answered and the answer received.
BrowserAtRest ==
  \A r \in Reqs :
    \/ reqs[r].pc = "idle"
    \/ /\ reqs[r].pc = "done"
       /\ \E i \in DOMAIN jar.received : jar.received[i].r = r

\* The provider sends the browser back to /auth/member/callback.
BrowserCallback(r) ==
  /\ BrowserAtRest
  /\ MemberExchange(r)

\* The browser receives the response of a member callback.
BrowserReceives(r) ==
  /\ reqs[r].kind = "member"
  /\ reqs[r].pc = "done"
  /\ \A i \in DOMAIN jar.received : jar.received[i].r # r
  /\ jar' = [jar EXCEPT
               !.cookies = StoreCookies(@, reqs[r].resp.cookies, clock),
               !.received = Append(@, [r |-> r, at |-> clock])]
  /\ UNCHANGED <<svc, calc, users, settings, sessions, tokens, members,
                 clock, reqs>>

\* The browser visits /auth/member/logout and receives the answer.
BrowserLogout ==
  /\ BrowserAtRest
  /\ Len(jar.logouts) < MaxLogouts
  /\ clock' = clock + 1
  /\ \E endpoint \in EndSessionEndpoints :
       LET idToken == RequestCookie(jar.cookies, "kc_member_id_token",
                                    LogoutRoute, clock)
           resp == LogoutResponse(endpoint, idToken)
       IN jar' = [jar EXCEPT
                    !.cookies = StoreCookies(@, resp.cookies, clock),
                    !.logouts = Append(@,
                      [idToken |-> idToken, endpoint |-> endpoint,
                       resp |-> resp, at |-> clock,
                       held |-> jar.cookies, seen |-> jar.received])]
  /\ UNCHANGED <<svc, calc, users, settings, sessions, tokens, members,
                 reqs>>

\* The lifetime of the ID token cookie passes.
TimePasses ==
  /\ BrowserAtRest
  /\ clock < IdTokenMaxAgeSec
  /\ clock' = clock + IdTokenMaxAgeSec
  /\ UNCHANGED <<jar, svc, calc, users, settings, sessions, tokens, members,
                 reqs>>

NextBrowser ==
  \/ \E r \in Reqs :
       \/ BrowserCallback(r)
       \/ MemberBrowse(r)
       \/ MemberAdd(r)
       \/ MemberTokenInsert(r)
       \/ BrowserReceives(r)
  \/ BrowserLogout
  \/ TimePasses

SpecBrowser == InitMember /\ [][NextBrowser]_vars

\* The login route alone: it reads and writes nothing but its response.
NextLogin == \E r \in Reqs : Login(r)

SpecLogin == InitMember /\ [][NextLogin]_vars

(***************************************************************************)
(* signCookie and its verification, outside the handlers: a value is       *)
(* signed under a secret; the result is then either verified under some    *)
(* secret, or the value is signed once more under some secret.             *)
(***************************************************************************)
InitSign ==
  /\ users = {}
  /\ settings = NoRow
  /\ sessions = <<>>
  /\ tokens = <<>>
  /\ members = <<>>
  /\ clock = 1
  /\ reqs = [r \in Reqs |-> IdleRequest]
  /\ svc = ServiceAtLoad
  /\ jar = EmptyJar
  /\ \E v \in SignedValues, k \in SigningSecrets :
       calc = [pc |-> "input", value |-> v, secret |-> k, signed |-> <<>>,
               other |-> k, again |-> <<>>, verified |-> UnsignFailed]

\* const signed = signCookie(value, secret)
SignValue ==
  /\ calc.pc = "input"
  /\ calc' = [calc EXCEPT !.pc = "signed",
                          !.signed = Wire(signCookie(calc.value, calc.secret))]
  /\ clock' = clock + 1
  /\ UNCHANGED <<jar, svc, users, settings, sessions, tokens, members, reqs>>

\* A later signCookie(value, k), k the same secret or another.
SignAgain ==
  /\ calc.pc = "signed"
  /\ \E k \in SigningSecrets :
       calc' = [calc EXCEPT !.pc = "signedAgain", !.other = k,
                            !.again = Wire(signCookie(calc.value, k))]
  /\ clock' = clock + 1
  /\ UNCHANGED <<jar, svc, users, settings, sessions, tokens, members, reqs>>

\* cookieSignature.unsign(signed.slice(2), k), k the same secret or another.
Unsign ==
  /\ calc.pc = "signed"
  /\ \E k \in SigningSecrets :
       calc' = [calc EXCEPT !.pc = "verified", !.other = k,
                            !.verified = unsign(WithoutPrefix(calc.signed), k)]
  /\ clock' = clock + 1
  /\ UNCHANGED <<jar, svc, users, settings, sessions, tokens, members, reqs>>

NextSign == SignValue \/ SignAgain \/ Unsign

SpecSign == InitSign /\ [][NextSign]_vars

(***************************************************************************)
(* The address extraction of the staff callback on its own, staff.js lines *)
(* 125-135: the source is chosen, then cut to its first hop.               *)
(***************************************************************************)
InitClientIp ==
  /\ users = {}
  /\ settings = NoRow
  /\ sessions = <<>>
  /\ tokens = <<>>
  /\ members = <<>>
  /\ clock = 1
  /\ reqs = [r \in Reqs |-> IdleRequest]
  /\ svc = ServiceAtLoad
  /\ jar = EmptyJar
  /\ \E h \in HeaderInputs :
       calc = [pc |-> "input", headers |-> h, userIp |-> <<>>,
               recorded |-> "", userAgent |-> ""]

\* let userIp = x-real-ip || x-forwarded-for || remoteAddress || '127.0.0.1'
ChooseAddress ==
  /\ calc.pc = "input"
  /\ calc' = [calc EXCEPT !.pc = "chosen",
                          !.userIp = ChosenAddress(calc.headers)]
  /\ UNCHANGED <<jar, svc, users, settings, sessions, tokens, members, clock, reqs>>

\* The first hop is taken and the user agent read.
TakeFirstHop ==
  /\ calc.pc = "chosen"
  /\ calc' = [calc EXCEPT !.pc = "recorded",
                          !.recorded = FirstHop(calc.userIp),
                          !.userAgent = UserAgent(calc.headers)]
  /\ UNCHANGED <<jar, svc, users, settings, sessions, tokens, members, clock, reqs>>

NextClientIp == ChooseAddress \/ TakeFirstHop

SpecClientIp == InitClientIp /\ [][NextClientIp]_vars

(***************************************************************************)
(* The member lookup on its own, for emails given character by character:  *)
(* the handler builds the filter and the query string, the platform        *)
(* answers for the members it stores.                                      *)
(***************************************************************************)
InitFilter ==
  /\ users = {}
  /\ settings = NoRow
  /\ sessions = <<>>
  /\ tokens = <<>>
  /\ members = <<>>
  /\ clock = 1
  /\ reqs = [r \in Reqs |-> IdleRequest]
  /\ svc = ServiceAtLoad
  /\ jar = EmptyJar
  /\ \E e \in EmailTexts, stored \in SUBSET EmailTexts :
       /\ Cardinality(stored) <= 1
       /\ calc = [pc |-> "input", email |-> e, stored |-> stored,
                  query |-> <<>>,
                  result |-> [ok |-> FALSE, matches |-> {}]]

\* ghost.members.browse({ filter: `email:'${userEmail}'` }) sends its request.
BuildFilter ==
  /\ calc.pc = "input"
  /\ calc' = [calc EXCEPT !.pc = "sent",
                          !.query = QueryString(BrowseFilter(calc.email))]
  /\ UNCHANGED <<jar, svc, users, settings, sessions, tokens, members, clock, reqs>>

\* The platform answers the request.
AnswerFilter ==
  /\ calc.pc = "sent"
  /\ calc' = [calc EXCEPT !.pc = "answered",
                          !.result = PlatformBrowse(calc.stored, calc.query)]
  /\ UNCHANGED <<jar, svc, users, settings, sessions, tokens, members, clock, reqs>>

NextFilter == BuildFilter \/ AnswerFilter

SpecFilter == InitFilter /\ [][NextFilter]_vars


(***************************************************************************)
(* Vocabulary of the properties.                                           *)
(***************************************************************************)
\* The statuses the data model calls loginable.
LoginableStatuses == {"active", "warn-1", "warn-2", "warn-3", "locked"}

\* The users table holds a loginable row for the email.
HasLoginableUser(email) ==
  \E u \in users : u.email = email /\ u.status \in LoginableStatuses

\* Positions of the request's history where `op` was called / returned.
Called(q, op) == { i \in DOMAIN q.trace : q.trace[i].op = op }
Returned(q, op) == { i \in Called(q, op) : q.trace[i].ok }

\* Every call of `a` in the history precedes every call of `b`.
Precedes(q, a, b) == \A i \in Called(q, a), j \in Called(q, b) : i < j

StaffDone(q) == q.kind = "staff" /\ q.pc = "done"
MemberDone(q) == q.kind = "member" /\ q.pc = "done"

\* The request ran to its end without any step throwing.
NothingThrew(q) == q.failedAt = "none"

\* The response carries no ghost-admin-api-session cookie.
NoSessionCookie(q) ==
  \A i \in DOMAIN q.resp.cookies :
    q.resp.cookies[i].name # "ghost-admin-api-session"

(***************************************************************************)
(* Staff callback.                                                         *)
(***************************************************************************)
\* C1: a staff callback in which nothing throws, whose email has a loginable
\* user row, with a signing secret in the settings table, inserts exactly one
\* session row whose payload expires 180 days (15552000 s) after the instant
\* of forging; its response sets exactly one cookie, 's:<session id>.<HMAC of
\* the session id under the secret>', HttpOnly, Secure, path /ghost, and
\* redirects to <blog>/ghost/.
C1_StaffSuccess ==
  \A r \in Reqs :
    LET q == reqs[r] IN
    ( /\ StaffDone(q)
      /\ NothingThrew(q)
      /\ HasLoginableUser(q.email)
      /\ settings \notin {NoRow, NullValue} )
    =>
    /\ Cardinality(Returned(q, "INSERT sessions")) = 1
    /\ Cardinality(Called(q, "INSERT sessions")) = 1
    /\ q.rowAt \in 1..Len(sessions)
    /\ LET row == sessions[q.rowAt] IN
       /\ row.session_id = q.sessionId
       /\ row.session_data.cookie.expires = row.created_at + 15552000
       /\ Len(q.resp.cookies) = 1
       /\ LET c == q.resp.cookies[1] IN
          /\ c.name = "ghost-admin-api-session"
          /\ c.value.prefix = "s:"
          /\ c.value.value = row.session_id
          /\ c.value.separator = "."
          /\ c.value.signature =
               [alg |-> "sha256", key |-> settings, msg |-> row.session_id]
          /\ c.httpOnly
          /\ c.secure
          /\ c.path = "/ghost"
    /\ q.resp.status = 302
    /\ q.resp.location = <<BlogUrl, "/ghost/">>

C1_Witness ==
  \E r \in Reqs :
    /\ StaffDone(reqs[r])
    /\ NothingThrew(reqs[r])
    /\ HasLoginableUser(reqs[r].email)
    /\ settings \notin {NoRow, NullValue}
    /\ reqs[r].rowAt > 0

\* C2: a staff callback whose exchange and user lookup return, and whose
\* email has no user row with a loginable status, redirects to
\* /auth/admin/login?error=user_not_found, inserts no session row and sets
\* no cookie.
C2_StaffUserNotFound ==
  \A r \in Reqs :
    LET q == reqs[r] IN
    ( /\ StaffDone(q)
      /\ NothingThrew(q)
      /\ ~HasLoginableUser(q.email) )
    =>
    /\ q.resp.status = 302
    /\ q.resp.location = <<"/auth/admin/login", "?error=", "user_not_found">>
    /\ q.resp.cookies = <<>>
    /\ q.rowAt = 0
    /\ Called(q, "INSERT sessions") = {}

C2_Witness ==
  \E r \in Reqs :
    /\ StaffDone(reqs[r])
    /\ NothingThrew(reqs[r])
    /\ ~HasLoginableUser(reqs[r].email)
    /\ Returned(reqs[r], "SELECT users") # {}

\* C3: a staff callback whose email has a loginable user row while the
\* settings table holds no signing secret redirects, when nothing throws,
\* with error=fatal_config, sets no cookie and has inserted no session row;
\* in every staff callback the secret is read before the session insert.
C3_StaffSecretMissing ==
  \A r \in Reqs :
    LET q == reqs[r] IN
    /\ ( /\ StaffDone(q)
         /\ NothingThrew(q)
         /\ HasLoginableUser(q.email)
         /\ settings = NoRow )
       =>
       /\ q.resp.status = 302
       /\ q.resp.location = <<"/auth/admin/login", "?error=", "fatal_config">>
       /\ q.resp.cookies = <<>>
       /\ q.rowAt = 0
       /\ Called(q, "INSERT sessions") = {}
    /\ q.kind = "staff" =>
       /\ Precedes(q, "SELECT settings", "INSERT sessions")
       /\ Called(q, "INSERT sessions") # {} =>
            Returned(q, "SELECT settings") # {}

C3_Witness ==
  \E r \in Reqs :
    /\ StaffDone(reqs[r])
    /\ NothingThrew(reqs[r])
    /\ HasLoginableUser(reqs[r].email)
    /\ settings = NoRow
    /\ Returned(reqs[r], "SELECT settings") # {}

\* C4: every row of the sessions table references a user row with a
\* loginable status, and a staff request whose email has no loginable user
\* row has neither inserted a session row nor been given a session cookie.
C4_SessionsOnlyForLoginable ==
  /\ \A i \in DOMAIN sessions :
       \E u \in users :
         u.id = sessions[i].user_id /\ u.status \in LoginableStatuses
  /\ \A r \in Reqs :
       LET q == reqs[r] IN
       (q.kind = "staff" /\ ~HasLoginableUser(q.email)) =>
         /\ q.rowAt = 0
         /\ Called(q, "INSERT sessions") = {}
         /\ NoSessionCookie(q)

C4_Witness ==
  /\ Len(sessions) > 0
  /\ \E r \in Reqs :
       /\ StaffDone(reqs[r])
       /\ reqs[r].email # Undefined
       /\ \E u \in users :
            u.email = reqs[r].email /\ u.status \notin LoginableStatuses

\* C5: a staff callback in which a step throws (the exchange, the user
\* lookup, the secret read, the session insert or the signing) redirects to
\* /auth/admin/login?error=fatal and sets no cookie.
C5_StaffThrowIsFatal ==
  \A r \in Reqs :
    LET q == reqs[r] IN
    (q.kind = "staff" /\ ~NothingThrew(q)) =>
      /\ q.pc = "done"
      /\ q.resp.status = 302
      /\ q.resp.location = <<"/auth/admin/login", "?error=", "fatal">>
      /\ q.resp.cookies = <<>>

C5_Witness ==
  /\ \E r \in Reqs : reqs[r].kind = "staff" /\ reqs[r].failedAt = "signCookie"
  /\ \E r \in Reqs :
       reqs[r].kind = "staff" /\ reqs[r].failedAt = "INSERT sessions"


(***************************************************************************)
(* Member callback.                                                        *)
(***************************************************************************)
\* The request's token row is in the table and its token is in the redirect.
TokenIssued(q) ==
  /\ Cardinality(Returned(q, "INSERT tokens")) = 1
  /\ Cardinality(Called(q, "INSERT tokens")) = 1
  /\ q.rowAt \in 1..Len(tokens)
  /\ tokens[q.rowAt].token = q.token
  /\ tokens[q.rowAt].data.email = q.email
  /\ q.resp.status = 302
  /\ q.resp.location = <<BlogUrl, "/members/?token=", tokens[q.rowAt].token>>
  /\ Precedes(q, "INSERT tokens", "res.redirect")

\* C6: a member callback in which nothing throws and whose lookup returned
\* zero matches has issued one create-member call with the claimed email,
\* then inserted exactly one token row, then redirected to
\* <blog>/members/?token=<that row's token>; the token insert is pending only
\* once the create call has returned.
C6_MemberProvisionThenTokenThenRedirect ==
  \A r \in Reqs :
    LET q == reqs[r] IN
    /\ (MemberDone(q) /\ NothingThrew(q) /\ q.matched = 0) =>
         /\ Cardinality(Called(q, "members.add")) = 1
         /\ \A i \in Called(q, "members.add") :
              q.trace[i].ok /\ q.trace[i].arg = q.email
         /\ \E i \in DOMAIN members : members[i].email = q.email
         /\ TokenIssued(q)
         /\ Precedes(q, "members.add", "INSERT tokens")
         /\ Precedes(q, "members.browse", "members.add")
    /\ (q.kind = "member" /\ q.matched = 0 /\ q.pc = "tokenInsert") =>
         Returned(q, "members.add") # {}

C6_Witness ==
  \E r \in Reqs :
    /\ MemberDone(reqs[r])
    /\ NothingThrew(reqs[r])
    /\ reqs[r].matched = 0
    /\ reqs[r].answer = "list"

\* C7: a member callback whose lookup returned an existing member issues no
\* create-member call, and when nothing throws it inserts its token row and
\* redirects with the token.
C7_MemberExistingNotCreated ==
  \A r \in Reqs :
    LET q == reqs[r] IN
    (q.kind = "member" /\ q.matched > 0) =>
      /\ Called(q, "members.add") = {}
      /\ q.pc # "add"
      /\ (q.pc = "done" /\ NothingThrew(q)) => TokenIssued(q)

C7_Witness ==
  \E r \in Reqs :
    /\ MemberDone(reqs[r])
    /\ NothingThrew(reqs[r])
    /\ reqs[r].matched > 0
    /\ reqs[r].rowAt > 0

\* C8: a member callback in which the member lookup or the member create
\* throws answers with a 500-class status, inserts no token row and sends
\* no redirect.
C8_MemberApiThrow ==
  \A r \in Reqs :
    LET q == reqs[r] IN
    (q.kind = "member" /\ q.failedAt \in {"members.browse", "members.add"}) =>
      /\ q.pc = "done"
      /\ q.resp.status \in 500..599
      /\ q.resp.location = <<>>
      /\ q.rowAt = 0
      /\ q.token = Undefined
      /\ Called(q, "INSERT tokens") = {}
      /\ Called(q, "res.redirect") = {}

C8_Witness ==
  /\ \E r \in Reqs :
       reqs[r].kind = "member" /\ reqs[r].failedAt = "members.browse"
  /\ \E r \in Reqs :
       reqs[r].kind = "member" /\ reqs[r].failedAt = "members.add"

\* C9: a member callback whose lookup was answered with anything other than
\* a member list never goes on to create a member or insert a token, and
\* ends with the 500 response.
C9_MalformedLookupFails ==
  \A r \in Reqs :
    LET q == reqs[r] IN
    (q.kind = "member" /\ q.answer = "other") =>
      /\ q.pc = "done"
      /\ q.resp.status = 500
      /\ q.rowAt = 0
      /\ Called(q, "members.add") = {}
      /\ Called(q, "INSERT tokens") = {}

\* C10: a member callback whose exchange throws answers 500 and does nothing
\* more: no cookie, no management API call, no token row, and one exchange
\* call only.
C10_MemberExchangeThrow ==
  \A r \in Reqs :
    LET q == reqs[r] IN
    (q.kind = "member" /\ q.failedAt = "exchange") =>
      /\ q.pc = "done"
      /\ q.resp.status = 500
      /\ q.resp.cookies = <<>>
      /\ Cardinality(Called(q, "exchange")) = 1
      /\ Called(q, "res.cookie") = {}
      /\ Called(q, "members.browse") = {}
      /\ Called(q, "members.add") = {}
      /\ Called(q, "INSERT tokens") = {}
      /\ q.rowAt = 0

C10_Witness ==
  \E r \in Reqs :
    /\ MemberDone(reqs[r])
    /\ reqs[r].failedAt = "exchange"
    /\ \E o \in Reqs : reqs[o].kind = "member" /\ reqs[o].rowAt > 0

\* C11: a member callback that created its member and whose token insert
\* then threw leaves the member record in the store (the history holds no
\* call after the failed insert but the 500 answer), has no token row, and
\* answers 500.
C11_ProvisionedMemberKept ==
  \A r \in Reqs :
    LET q == reqs[r] IN
    ( /\ q.kind = "member"
      /\ q.failedAt = "INSERT tokens"
      /\ Returned(q, "members.add") # {} )
    =>
    /\ q.pc = "done"
    /\ \E i \in DOMAIN members :
         members[i] = MemberRecord(q.email, q.name)
    /\ q.rowAt = 0
    /\ Returned(q, "INSERT tokens") = {}
    /\ Len(tokens) = Cardinality({ o \in Reqs : reqs[o].rowAt > 0 })
    /\ q.resp.status = 500
    /\ q.resp.location = <<>>
    /\ \A i \in Called(q, "members.add"), j \in DOMAIN q.trace :
         j > i => q.trace[j].op \in {"INSERT tokens", "res.send"}

C11_Witness ==
  \E r \in Reqs :
    /\ MemberDone(reqs[r])
    /\ reqs[r].failedAt = "INSERT tokens"
    /\ Returned(reqs[r], "members.add") # {}

\* The member records stored under an email, and the member requests for
\* that email whose create call returned.
RecordsOf(email) == { i \in DOMAIN members : members[i].email = email }
CreatedBy(email) ==
  { r \in Reqs : /\ reqs[r].kind = "member"
                 /\ reqs[r].email = email
                 /\ Returned(reqs[r], "members.add") # {} }

\* C12: nothing stands between a request's lookup and its create.  While
\* one request for an email with no member is between lookup and create,
\* another request's lookup for the same email, answered with the member
\* list, also sees zero matches and goes on to create; and every create
\* call that returned has added a record of its own, so the store holds as
\* many records for an email as create calls returned for it.
C12_ConcurrentCallbacksBothCreate ==
  /\ [](\A e \in Emails :
          Cardinality(RecordsOf(e)) = Cardinality(CreatedBy(e)))
  /\ [][\A r1, r2 \in Reqs :
          ( /\ r1 # r2
            /\ reqs[r1].kind = "member" /\ reqs[r1].pc = "add"
            /\ reqs[r2].kind = "member" /\ reqs[r2].pc = "browse"
            /\ reqs[r2].email = reqs[r1].email
            /\ RecordsOf(reqs[r1].email) = {}
            /\ reqs'[r2].pc # "browse"
            /\ reqs'[r2].answer = "list" )
          => reqs'[r2].pc = "add" /\ reqs'[r2].matched = 0]_vars

\* Two requests for one email both saw the member list with zero matches,
\* both created, and the store holds two records for the email.
C12_Witness ==
  \E r1, r2 \in Reqs :
    /\ r1 # r2
    /\ reqs[r1].email = reqs[r2].email
    /\ \A r \in {r1, r2} :
         /\ reqs[r].kind = "member"
         /\ reqs[r].answer = "list"
         /\ reqs[r].matched = 0
         /\ Returned(reqs[r], "members.add") # {}
    /\ Cardinality(RecordsOf(reqs[r1].email)) = 2

\* The pieces of text that a failing collaborator supplied: the upstream
\* status and response text and the messages of the provider's and the
\* store's errors.
UpstreamText ==
  { "503", "Service Unavailable", "fetch failed", "invalid_grant",
    "connect ECONNREFUSED" }

\* C13: the 500 body of a failed member callback is the same for every
\* cause of failure and holds no text supplied by a failing collaborator.
C13_FailureBodyGeneric ==
  \A r1, r2 \in Reqs :
    LET q1 == reqs[r1]
        q2 == reqs[r2] IN
    ( /\ MemberDone(q1) /\ q1.failedAt # "none"
      /\ MemberDone(q2) /\ q2.failedAt # "none" )
    =>
    /\ q1.resp.body = q2.resp.body
    /\ \A i \in DOMAIN q1.resp.body : q1.resp.body[i] \notin UpstreamText

(***************************************************************************)
(* Signing.                                                                *)
(***************************************************************************)
\* C14: a value signed under a secret and verified under the same secret
\* by the reference verifier is recovered unchanged; verified under a
\* different secret, verification fails.
C14_SignUnsignRoundTrip ==
  calc.pc = "verified" =>
    IF calc.other = calc.secret
    THEN calc.verified.ok /\ calc.verified.value = calc.value
    ELSE ~calc.verified.ok

\* Both cases for a value that holds the separator character.
C14_Witness ==
  /\ calc.pc = "verified"
  /\ calc.other = calc.secret
  /\ calc.verified.ok
  /\ \E i \in DOMAIN calc.value : calc.value[i] = "."

CallerSupplied ==
  Emails \cup { c.name : c \in Claims }
         \cup { UserAgent(h) : h \in HeaderSets }
         \cup { ClientIp(h) : h \in HeaderSets }

Placeholders(sql) == { k \in DOMAIN sql : sql[k] = "?" }

\* C17: two statements of the same kind, sent by any two requests, have the
\* same text whatever the requests' inputs; the text holds no value a caller
\* controls and one placeholder per bound value; the claimed email of the
\* user lookup, and the client address and user agent of the session
\* insert, are among the bound values.
C17_StatementTextConstant ==
  /\ \A r1, r2 \in Reqs :
       \A i \in DOMAIN reqs[r1].stmts, j \in DOMAIN reqs[r2].stmts :
         reqs[r1].stmts[i].op = reqs[r2].stmts[j].op
           => reqs[r1].stmts[i].sql = reqs[r2].stmts[j].sql
  /\ \A r \in Reqs :
       \A i \in DOMAIN reqs[r].stmts :
         LET a == reqs[r].stmts[i] IN
         /\ \A k \in DOMAIN a.sql : a.sql[k] \notin CallerSupplied
         /\ Cardinality(Placeholders(a.sql)) = Len(a.params)
         /\ a.op = "SELECT users" => a.params = <<reqs[r].email>>
         /\ a.op = "INSERT sessions" =>
              /\ a.params[4].ip \in { ClientIp(h) : h \in HeaderSets }
              /\ a.params[4].user_agent \in
                   { UserAgent(h) : h \in HeaderSets }
         /\ a.op = "INSERT tokens" => a.params[4].email = reqs[r].email

\* Two staff callbacks with different emails have both sent the user
\* lookup, and one of them the session insert.
C17_Witness ==
  \E r1, r2 \in Reqs :
    /\ reqs[r1].kind = "staff" /\ reqs[r2].kind = "staff"
    /\ reqs[r1].email # reqs[r2].email
    /\ Returned(reqs[r1], "SELECT users") # {}
    /\ Returned(reqs[r2], "SELECT users") # {}
    /\ Returned(reqs[r1], "INSERT sessions") # {}

(***************************************************************************)
(* Member lookup and provisioning.                                         *)
(***************************************************************************)
\* C18: for every claimed email, a quote character or capital letters in
\* it included, the lookup is answered with exactly the stored members
\* whose email equals the claimed one as received.
C18_LookupMatchesExactEmail ==
  calc.pc = "answered" =>
    /\ calc.result.ok
    /\ calc.result.matches = { m \in calc.stored : m = calc.email }

\* C19: every member the callback provisions has a name: the claimed
\* display name, or a label when the claims carry none; never an absent or
\* empty name.
C19_ProvisionedNameNeverAbsent ==
  /\ \A i \in DOMAIN members : members[i].name \notin {Undefined, ""}
  /\ \A r \in Reqs :
       \A i \in Called(reqs[r], "members.add") :
         reqs[r].name = Undefined =>
           \E j \in DOMAIN members :
             /\ members[j].email = reqs[r].email
             /\ members[j].name \notin {Undefined, ""}

IdTokenCookiesOf(q) ==
  { i \in DOMAIN q.resp.cookies :
      q.resp.cookies[i].name = "kc_member_id_token" }

\* C21: a member callback whose exchange returned has set one
\* kc_member_id_token cookie holding the ID token, HttpOnly, Secure,
\* SameSite=Lax, with a lifetime of one hour (3600 s) and the path of this
\* service's callback route.
C21_IdTokenCookieScopedToCallback ==
  \A r \in Reqs :
    LET q == reqs[r] IN
    (q.kind = "member" /\ Returned(q, "exchange") # {}) =>
      /\ Cardinality(IdTokenCookiesOf(q)) = 1
      /\ \A i \in IdTokenCookiesOf(q) :
           LET c == q.resp.cookies[i] IN
           /\ c.value.value = q.idToken
           /\ c.httpOnly
           /\ c.secure
           /\ c.sameSite = "Lax"
           /\ c.maxAge = 3600
           /\ c.path = "/auth/member/callback"

\* C22: every login answers with a redirect whose query is client_id,
\* redirect_uri, response_type=code and scope.  With action=signup and an
\* authorization endpoint ending in /auth, the target is that endpoint with
\* its last segment replaced by /registrations and nothing else changed; in
\* every other case the target is the endpoint unchanged.
C22_LoginRedirect ==
  \A r \in Reqs :
    LET q == reqs[r]
        url == q.resp.location
        n == Len(q.authEndpoint)
        target == SubSeq(url, 1, n) IN
    q.kind = "login" =>
      /\ q.pc = "done"
      /\ q.resp.status = 302
      /\ Len(url) = n + 9
      /\ SubSeq(url, n + 1, n + 9) =
           <<"?", "client_id=", "ghost-members",
             "&redirect_uri=",
             "https%3A%2F%2Fblog.example.com%2Fauth%2Fmember%2Fcallback",
             "&response_type=", "code", "&scope=", "openid+email+profile">>
      /\ IF q.action = "signup" /\ q.authEndpoint[n] = "/auth"
         THEN /\ target[n] = "/registrations"
              /\ SubSeq(target, 1, n - 1) = SubSeq(q.authEndpoint, 1, n - 1)
         ELSE target = q.authEndpoint

\* A signup on an endpoint with /auth both inside and at the end, and a
\* login with another action on an endpoint ending in /auth.
C22_Witness ==
  \E r1, r2 \in Reqs :
    /\ reqs[r1].kind = "login" /\ reqs[r1].action = "signup"
    /\ Len(reqs[r1].authEndpoint) = 7
    /\ reqs[r2].kind = "login" /\ reqs[r2].action = "SIGNUP"
    /\ Len(reqs[r2].authEndpoint) = 6

(***************************************************************************)
(* Forged session: client address.                                         *)
(***************************************************************************)
\* C23: the recorded address comes from the real-IP header when the request
\* has one, else from the forwarded-for header when it has one, else from
\* the socket, and is the loopback address only when none of the three is
\* there; of a chain the first hop is recorded, without surrounding blanks,
\* and a single address is recorded as it is.
C23_ClientIpPreference ==
  calc.pc = "recorded" =>
    LET h == calc.headers
        source == IF h.xRealIp # <<>> THEN h.xRealIp
                  ELSE IF h.xForwardedFor # <<>> THEN h.xForwardedFor
                  ELSE h.remoteAddress IN
    /\ source = <<>> <=> calc.recorded = "127.0.0.1"
    /\ Len(source) = 1 => calc.recorded = source[1]
    /\ Len(source) > 1 =>
         /\ calc.recorded \in {"198.51.100.4", "203.0.113.7"}
         /\ source[1] \in {calc.recorded, calc.recorded \o " "}

\* Both headers hold chains; the real-IP header's first hop is recorded.
C23_Witness ==
  /\ calc.pc = "recorded"
  /\ calc.headers.xRealIp = <<"198.51.100.4", " 10.0.0.1">>
  /\ calc.headers.xForwardedFor = <<"203.0.113.7 ", " 10.0.0.1">>
  /\ calc.recorded = "198.51.100.4"

(***************************************************************************)
(* Store failures.                                                         *)
(***************************************************************************)
\* C24: when the store rejects a statement of a callback, query throws the
\* driver's own error, code included, to the handler; the request then ends
\* FAILED at that statement (the fatal redirect for a staff callback, the
\* 500 answer for a member callback), has used no result of the statement
\* and makes no further call.
C24_StoreFailureReachesHandler ==
  \A r \in Reqs :
    LET q == reqs[r] IN
    q.driverFailed # "none" =>
      /\ q.pc = "done"
      /\ q.failedAt = q.driverFailed
      /\ q.queryError.message \in StoreErrors
      /\ q.queryError.code = "ECONNREFUSED"
      /\ Returned(q, q.driverFailed) = {}
      /\ q.rowAt = 0
      /\ q.trace[Len(q.trace) - 1] =
           [op |-> q.driverFailed,
            arg |-> IF q.kind = "staff" THEN Undefined ELSE q.email,
            ok |-> FALSE]
      /\ IF q.kind = "staff"
         THEN /\ q.resp.status = 302
              /\ q.resp.location = <<"/auth/admin/login", "?error=", "fatal">>
              /\ q.resp.cookies = <<>>
         ELSE /\ q.resp.status = 500
              /\ q.resp.location = <<>>

\* The store has rejected a user lookup, a settings query and a session
\* insert.
C24_Witness ==
  \E r1, r2 \in Reqs :
    /\ reqs[r1].driverFailed = "INSERT sessions"
    /\ reqs[r2].driverFailed \in {"SELECT users", "SELECT settings"}

(***************************************************************************)
(* The shared store.                                                       *)
(***************************************************************************)
\* `after` is `before` with at most one row added at its end.
GrownByAtMostOne(before, after) ==
  /\ Len(after) \in {Len(before), Len(before) + 1}
  /\ SubSeq(after, 1, Len(before)) = before

\* C25: no step of any request changes the users table or the settings
\* table, and no step removes or changes a member, a token row or a session
\* row that is there: each step leaves the three collections as they were or
\* adds one row to one of them.
C25_StoreOnlyGrowsByInserts ==
  [][ /\ users' = users
      /\ settings' = settings
      /\ GrownByAtMostOne(members, members')
      /\ GrownByAtMostOne(tokens, tokens')
      /\ GrownByAtMostOne(sessions, sessions')
      /\ Len(members') + Len(tokens') + Len(sessions')
           <= Len(members) + Len(tokens) + Len(sessions) + 1 ]_vars

\* A member, a token row and a session row have been inserted.
C25_Witness ==
  /\ Len(members) >= 1
  /\ Len(sessions) >= 1
  /\ Len(tokens) >= 1

(***************************************************************************)
(* Health probes.                                                          *)
(***************************************************************************)
\* C26: a startup probe answers 503 'starting' when it arrives before
\* setStartupComplete() has been called and 200 'started' when it arrives
\* after; the flag, once set, stays set, so no probe answers 503 after a
\* probe has answered 200.
C26_StartupProbe ==
  /\ [][ /\ svc.isStartupComplete => svc'.isStartupComplete
         /\ \A r \in Reqs :
              (reqs[r].pc = "idle" /\ reqs'[r].kind = "startup") =>
                /\ reqs'[r].pc = "done"
                /\ reqs'[r].resp.status =
                     IF svc.isStartupComplete THEN 200 ELSE 503
                /\ reqs'[r].resp.body =
                     IF svc.isStartupComplete THEN <<"started">>
                     ELSE <<"starting">> ]_vars
  /\ [](\A r1, r2 \in Reqs :
         ( /\ r1 < r2
           /\ reqs[r1].kind = "startup" /\ reqs[r2].kind = "startup"
           /\ reqs[r1].resp.status = 200 )
         => reqs[r2].resp.status = 200)

\* One probe was answered before the call and one after it.
C26_Witness ==
  \E r1, r2 \in Reqs :
    /\ reqs[r1].kind = "startup" /\ reqs[r1].resp.status = 503
    /\ reqs[r2].kind = "startup" /\ reqs[r2].resp.status = 200

\* C27: a readiness probe, on either route, answers 200 'ready' when the
\* connectivity check returned true and only then, and 503 'not ready' when
\* it returned false or rejected; when the store rejects the check's
\* statement, the check returns false and does not reject.
C27_ReadinessProbe ==
  \A r \in Reqs :
    LET q == reqs[r] IN
    (q.kind \in {"ready", "readyz"} /\ q.pc = "done") =>
      /\ q.resp.status = 200 <=> q.answer = "true"
      /\ q.resp.status = 200 => q.resp.body[1] = "ready"
      /\ q.answer \in {"false", "threw"} =>
           q.resp.status = 503 /\ q.resp.body[1] = "not ready"
      /\ q.driverFailed = "SELECT 1" => q.answer = "false"

\* The store has rejected the statement of one probe, and the check of
\* another has rejected.
C27_Witness ==
  \E r1, r2 \in Reqs :
    /\ reqs[r1].kind = "ready" /\ reqs[r1].driverFailed = "SELECT 1"
    /\ reqs[r1].pc = "done"
    /\ reqs[r2].kind = "readyz" /\ reqs[r2].answer = "threw"

(***************************************************************************)
(* The admin-UI patcher, custom-start.js (src/unnamed/part_000) and         *)
(* ghost-sso/6.x/custom-start.sh: a file is a sequence of pieces of text.   *)
(***************************************************************************)
MaxBodyLen == 3
MaxRuns == 3

\* const CLIENT_SCRIPT: the script element with id "ghost-bridge-sso".
CLIENT_SCRIPT == "<script id=ghost-bridge-sso>...</script>"

ClosingBody == "</body>"

\* What the admin page holds between its body tags.
BodyPieces == {"<div id=ember-app>", "<script src=vendor.js>", "<noscript>"}

\* The admin pages the platform ships: one document, one closing body tag.
AdminPages ==
  { <<"<html>", "<body>">> \o b \o <<ClosingBody, "</html>">> :
      b \in UNION { [1..n -> BodyPieces] : n \in 0..MaxBodyLen } }

\* content.includes('ghost-bridge-sso'): only the injected block holds the
\* marker.
Includes_never(content) == FALSE
Includes(content) == \E i \in 1..Len(content) : content[i] = CLIENT_SCRIPT

\* content.replace('</body>', CLIENT_SCRIPT + '</body>'): the first
\* occurrence is replaced, and a content without one is returned as it is.
Replace(content) ==
  IF \E i \in 1..Len(content) : content[i] = ClosingBody
  THEN LET i == CHOOSE k \in 1..Len(content) :
                  /\ content[k] = ClosingBody
                  /\ \A j \in 1..(k - 1) : content[j] # ClosingBody
       IN SubSeq(content, 1, i - 1) \o <<CLIENT_SCRIPT>>
            \o SubSeq(content, i, Len(content))
  ELSE content

\* The container starts: findFile may find no admin page (the versions
\* directory is missing or laid out otherwise); the page is as shipped.
InitPatcher ==
  /\ users = {}
  /\ settings = NoRow
  /\ sessions = <<>>
  /\ tokens = <<>>
  /\ members = <<>>
  /\ clock = 1
  /\ reqs = [r \in Reqs |-> IdleRequest]
  /\ svc = ServiceAtLoad
  /\ jar = EmptyJar
  /\ \E found \in BOOLEAN, page \in AdminPages :
       calc = [pc |-> "patcher", found |-> found, content |-> page,
               shipped |-> page, runs |-> 0, writes |-> 0]

\* One start of the container: the try block of the patcher.
RunPatcher ==
  /\ calc.pc = "patcher"
  /\ calc.runs < MaxRuns
  /\ calc' =
       IF calc.found /\ ~Includes(calc.content)
       THEN [calc EXCEPT !.runs = @ + 1,
                         !.content = Replace(calc.content),
                         !.writes = @ + 1]
       ELSE [calc EXCEPT !.runs = @ + 1]
  /\ UNCHANGED <<jar, svc, users, settings, sessions, tokens, members, clock, reqs>>

NextPatcher == RunPatcher

SpecPatcher == InitPatcher /\ [][NextPatcher]_vars

\* The number of injected blocks of a content.
Blocks(content) ==
  Cardinality({i \in 1..Len(content) : content[i] = CLIENT_SCRIPT})

\* after is before with the block inserted right before the closing body
\* tag and nothing else changed.
BlockInserted(before, after) ==
  \E i \in 1..Len(before) :
    /\ before[i] = ClosingBody
    /\ after = SubSeq(before, 1, i - 1) \o <<CLIENT_SCRIPT>>
                 \o SubSeq(before, i, Len(before))

StaffFailed(q) ==
  /\ q.kind = "staff" /\ q.pc = "done"
  /\ q.resp.location # AdminEntryLocation

\* C29: a failed staff callback redirects with exactly one of three codes,
\* chosen by the cause: user_not_found when the lookup returned no user,
\* fatal_config when the settings lookup returned no secret row, fatal when
\* a step threw; a store failure during the user lookup gives fatal.
C29_StaffFailureCodeByCause ==
  \A r \in Reqs :
    LET q == reqs[r] IN
    StaffFailed(q) =>
      /\ q.resp.status = 302
      /\ q.resp.location \in
           {UserNotFoundLocation, ConfigErrorLocation, FatalLocation}
      /\ q.resp.location = FatalLocation <=> q.failedAt # "none"
      /\ q.resp.location = UserNotFoundLocation <=>
           /\ q.failedAt = "none"
           /\ q.userId = Undefined
           /\ SelectStaffUser(users, q.email) = <<>>
      /\ q.resp.location = ConfigErrorLocation <=>
           /\ q.failedAt = "none"
           /\ q.userId # Undefined
           /\ SelectSessionSecret(settings) = <<>>
      /\ q.driverFailed = "SELECT users" =>
           q.resp.location = FatalLocation

\* The store failed the user lookup of one callback, and the lookup of
\* another returned no user.
C29_Witness ==
  \E r1, r2 \in Reqs :
    /\ StaffFailed(reqs[r1]) /\ reqs[r1].driverFailed = "SELECT users"
    /\ StaffFailed(reqs[r2]) /\ reqs[r2].failedAt = "none"
    /\ reqs[r2].userId = Undefined

\* C30: a staff callback that has inserted a session row ends with the
\* redirect to the admin area and the signed session cookie; no session row
\* is left behind by a callback answered with a failure redirect.
C30_SessionRowImpliesSuccess ==
  \A r \in Reqs :
    LET q == reqs[r] IN
    (q.kind = "staff" /\ q.pc = "done" /\ q.rowAt > 0) =>
      /\ q.resp.status = 302
      /\ q.resp.location = AdminEntryLocation
      /\ Len(q.resp.cookies) = 1
      /\ q.resp.cookies[1].value = signCookie(q.sessionId, q.secret)

(***************************************************************************)
(* The forged cookie and the stored session.                               *)
(***************************************************************************)
\* C31: for every staff callback that inserted a session row, the payload's
\* user_id is the row's user_id and the id of the user row its email
\* matched; when the response sets the cookie, the cookie's max-age is the
\* payload's originalMaxAge, 180 days, and its HttpOnly, Secure, path and
\* SameSite attributes are those of the payload's cookie policy, /ghost and
\* none.
C31_CookieAgreesWithSession ==
  \A r \in Reqs :
    LET q == reqs[r] IN
    (q.kind = "staff" /\ q.rowAt > 0) =>
      LET row == sessions[q.rowAt]
          policy == row.session_data.cookie
      IN /\ row.session_data.user_id = row.user_id
         /\ SelectStaffUser(users, q.email) # <<>>
         /\ row.user_id = SelectStaffUser(users, q.email)[1].id
         /\ policy.originalMaxAge = 15552000
         /\ \A i \in 1..Len(q.resp.cookies) :
              LET c == q.resp.cookies[i] IN
              /\ c.maxAge = policy.originalMaxAge
              /\ c.httpOnly = policy.httpOnly /\ c.httpOnly
              /\ c.secure = policy.secure /\ c.secure
              /\ c.path = policy.path /\ c.path = "/ghost"
              /\ c.sameSite = policy.sameSite /\ c.sameSite = "none"

\* A staff callback has inserted its row and set the cookie.
C31_Witness ==
  \E r \in Reqs :
    /\ reqs[r].kind = "staff" /\ reqs[r].pc = "done"
    /\ reqs[r].rowAt > 0
    /\ Len(reqs[r].resp.cookies) = 1
    /\ sessions[reqs[r].rowAt].user_id = "user-alice"

(***************************************************************************)
(* The member callback's token.                                            *)
(***************************************************************************)
\* The member callback was answered with the redirect to the member area.
MemberSucceeded(q) ==
  MemberDone(q) /\ q.resp.status = 302 /\ Len(q.resp.location) = 3

\* C32: the step in which a member callback succeeds appends exactly one row
\* to the tokens table, and the token of the redirect is that row's token;
\* the rows of the table are one per successful callback, each callback's
\* redirect naming the token of its own row, whose data holds its email.
C32_RedirectCarriesOwnToken ==
  /\ [][\A r \in Reqs :
          (~MemberSucceeded(reqs[r]) /\ MemberSucceeded(reqs'[r])) =>
            /\ Len(tokens') = Len(tokens) + 1
            /\ SubSeq(tokens', 1, Len(tokens)) = tokens
            /\ reqs'[r].rowAt = Len(tokens')
            /\ reqs'[r].resp.location =
                 <<BlogUrl, "/members/?token=", tokens'[Len(tokens')].token>>
            /\ Cardinality(Called(reqs'[r], "INSERT tokens")) = 1]_vars
  /\ [](/\ Len(tokens) =
            Cardinality({r \in Reqs : MemberSucceeded(reqs[r])})
         /\ \A r \in Reqs :
              MemberSucceeded(reqs[r]) =>
                /\ reqs[r].rowAt \in 1..Len(tokens)
                /\ reqs[r].resp.location[3] = tokens[reqs[r].rowAt].token
                /\ tokens[reqs[r].rowAt].data.email = reqs[r].email
                /\ \A r2 \in Reqs \ {r} :
                     MemberSucceeded(reqs[r2]) =>
                       reqs[r2].rowAt # reqs[r].rowAt)

\* Two callbacks have succeeded with different tokens, the second row's
\* token in the second redirect.
C32_Witness ==
  \E r1, r2 \in Reqs :
    /\ MemberSucceeded(reqs[r1]) /\ MemberSucceeded(reqs[r2])
    /\ reqs[r1].rowAt = 1 /\ reqs[r2].rowAt = 2
    /\ tokens[1].token = "opaqueA" /\ tokens[2].token = "opaqueB"
    /\ reqs[r2].resp.location[3] = "opaqueB"

(***************************************************************************)
(* Termination of the callbacks.                                           *)
(***************************************************************************)
\* The calls of the history that send the response.
ResponsesSent(q) ==
  { i \in DOMAIN q.trace :
      q.trace[i].op \in {"res.redirect", "res.send", "res.json"} }

CallbackInvoked(q) == q.kind \in {"staff", "member"}

\* The terminal states of a callback.
EndedSuccess(q) ==
  /\ q.pc = "done" /\ q.failedAt = "none" /\ q.resp.status = 302
  /\ q.resp.location \in
       {AdminEntryLocation, MemberEntryLocation(q.token)}
EndedFailed(q) ==
  /\ q.pc = "done"
  /\ \/ q.resp.status = 500
     \/ /\ q.resp.status = 302
        /\ q.resp.location \in
             {UserNotFoundLocation, ConfigErrorLocation, FatalLocation}

\* C33: when every awaited collaborator returns or throws, every invoked
\* callback, staff or member, comes to its end; at its end it is in exactly
\* one of the terminal states SUCCESS and FAILED and has sent exactly one
\* response, before its end it has sent none, and after its end nothing of
\* the request changes.
C33_CallbackEndsWithOneResponse ==
  /\ \A r \in Reqs :
       CallbackInvoked(reqs[r]) ~> (reqs[r].pc = "done")
  /\ [](\A r \in Reqs :
         CallbackInvoked(reqs[r]) =>
           IF reqs[r].pc = "done"
           THEN /\ Cardinality(ResponsesSent(reqs[r])) = 1
                /\ reqs[r].resp.status # 0
                /\ EndedSuccess(reqs[r]) # EndedFailed(reqs[r])
           ELSE /\ ResponsesSent(reqs[r]) = {}
                /\ reqs[r].resp.status = 0)
  /\ [][\A r \in Reqs :
          reqs[r].pc = "done" => reqs'[r] = reqs[r]]_vars

\* A staff callback has ended FAILED at its last step and a member callback
\* has ended SUCCESS.
C33_Witness ==
  \E r1, r2 \in Reqs :
    /\ reqs[r1].kind = "staff" /\ EndedFailed(reqs[r1])
    /\ reqs[r1].failedAt = "signCookie"
    /\ reqs[r2].kind = "member" /\ EndedSuccess(reqs[r2])

(***************************************************************************)
(* Concurrent staff callbacks.                                             *)
(***************************************************************************)
\* C34: in every interleaving of staff callbacks, the cookie of each
\* response signs the session id of the row that request inserted, under
\* the store's secret; that row's user_id, in the column and in the payload,
\* is the id of the users row holding the request's email; and no two
\* requests own the same row.
C34_ConcurrentStaffCallbacksIsolated ==
  \A r \in Reqs :
    LET q == reqs[r] IN
    (StaffDone(q) /\ q.resp.location = AdminEntryLocation) =>
      /\ q.rowAt \in 1..Len(sessions)
      /\ \A r2 \in Reqs \ {r} :
           reqs[r2].kind = "staff" => reqs[r2].rowAt # q.rowAt
      /\ LET row == sessions[q.rowAt] IN
         /\ \E u \in users :
              /\ u.email = q.email
              /\ row.user_id = u.id
              /\ row.session_data.user_id = u.id
         /\ Len(q.resp.cookies) = 1
         /\ q.resp.cookies[1].value = signCookie(row.session_id, settings)

\* Two callbacks for different users have overlapped: the one that arrived
\* second inserted its row first, and both have succeeded.
C34_Witness ==
  /\ MaxReq >= 2
  /\ StaffDone(reqs[1]) /\ StaffDone(reqs[2])
  /\ reqs[1].resp.location = AdminEntryLocation
  /\ reqs[2].resp.location = AdminEntryLocation
  /\ reqs[1].email # reqs[2].email
  /\ reqs[1].rowAt = 2 /\ reqs[2].rowAt = 1

(***************************************************************************)
(* Member callbacks one after another.                                     *)
(***************************************************************************)
\* Every lookup made so far for the email was answered with the member list
\* of the store.
LookupsAnsweredCorrectly(email) ==
  \A r \in Reqs :
    (reqs[r].kind = "member" /\ reqs[r].email = email) =>
      /\ reqs[r].failedAt # "members.browse"
      /\ reqs[r].answer \in {"none", "list"}

\* The requests that issued a create-member call for the email.
CreateIssuedBy(email) ==
  { r \in Reqs : /\ reqs[r].kind = "member"
                 /\ reqs[r].email = email
                 /\ Called(reqs[r], "members.add") # {} }

\* C35 as stated: when callbacks do not overlap and every lookup is answered
\* correctly, at most one create-member call is ever issued for an email.
C35_AtMostOneCreateIssued ==
  \A e \in Emails :
    LookupsAnsweredCorrectly(e) => Cardinality(CreateIssuedBy(e)) <= 1

\* C35: when callbacks do not overlap and every lookup is answered
\* correctly, at most one create-member call returns for an email, the store
\* holds at most one record for it, and every callback that arrives after a
\* create call has returned finds the member and issues no create call.
C35_AtMostOneCreateReturns ==
  \A e \in Emails :
    LookupsAnsweredCorrectly(e) =>
      /\ Cardinality(CreatedBy(e)) <= 1
      /\ Cardinality(RecordsOf(e)) <= 1
      /\ \A r1, r2 \in Reqs :
           ( /\ r1 < r2
             /\ r1 \in CreatedBy(e)
             /\ reqs[r2].kind = "member" /\ reqs[r2].email = e
             /\ reqs[r2].pc # "browse" )
           => reqs[r2].matched = 1 /\ r2 \notin CreateIssuedBy(e)

\* A callback provisioned the member and a later one for the same email
\* found it and ended with its own token.
C35_Witness ==
  \E r1, r2 \in Reqs :
    /\ r1 < r2
    /\ reqs[r1].email = reqs[r2].email
    /\ LookupsAnsweredCorrectly(reqs[r1].email)
    /\ r1 \in CreatedBy(reqs[r1].email)
    /\ MemberSucceeded(reqs[r2])
    /\ reqs[r2].matched = 1

(***************************************************************************)
(* Callback, then logout, in one browser.                                  *)
(***************************************************************************)
Latest(S) == CHOOSE x \in S : \A y \in S : y <= x

\* The received responses, by position in `seen`, of the callbacks that
\* succeeded, and of the callbacks whose code exchange returned a token (the
\* responses that carry the ID token cookie).
SucceededIn(seen) ==
  { i \in DOMAIN seen : MemberSucceeded(reqs[seen[i].r]) }
ExchangedIn(seen) ==
  { i \in DOMAIN seen : reqs[seen[i].r].resp.cookies # <<>> }

\* Logout k is sent within the lifetime of the cookie received with `e`, and
\* no logout lies between the two.
FirstLogoutWithin(k, e) ==
  /\ jar.logouts[k].at < e.at + 3600
  /\ \A j \in 1..(k - 1) : jar.logouts[j].at < e.at

\* Logout k got the cookie with the ID token of request r and put that
\* token in the hint of its redirect.
HintsTokenOf(k, r) ==
  LET visit == jar.logouts[k] IN
  /\ \E h \in visit.held :
       /\ h.name = "kc_member_id_token" /\ h.value = reqs[r].idToken
       /\ PathCovers(h.path, LogoutRoute)
  /\ visit.idToken = reqs[r].idToken
  /\ visit.endpoint # Undefined =>
       /\ Len(visit.resp.location) = 8
       /\ SubSeq(visit.resp.location, 7, 8) =
            <<"&id_token_hint=", reqs[r].idToken>>

\* C36 as stated: a logout within the lifetime of the cookie of the most
\* recent successful callback of the browser gets that cookie, and its
\* id_token_hint is the ID token of that callback.
C36_HintOfLastSuccessfulCallback ==
  \A k \in DOMAIN jar.logouts :
    LET seen == jar.logouts[k].seen IN
    (SucceededIn(seen) # {}
       /\ FirstLogoutWithin(k, seen[Latest(SucceededIn(seen))])) =>
      HintsTokenOf(k, seen[Latest(SucceededIn(seen))].r)

\* C36: a logout within the lifetime of the cookie of the most recent
\* callback of the browser whose code exchange returned a token, whether or
\* not that callback went on to succeed, gets that cookie (its path covers
\* the logout route), and its id_token_hint is the ID token of that
\* callback.
C36_HintOfLastExchangedCallback ==
  \A k \in DOMAIN jar.logouts :
    LET seen == jar.logouts[k].seen IN
    (ExchangedIn(seen) # {}
       /\ FirstLogoutWithin(k, seen[Latest(ExchangedIn(seen))])) =>
      HintsTokenOf(k, seen[Latest(ExchangedIn(seen))].r)

\* Two callbacks with different ID tokens have succeeded in the browser, and
\* the logout after them carried the second one's token.
C36_Witness ==
  \E k \in DOMAIN jar.logouts :
    LET visit == jar.logouts[k] IN
    /\ Len(visit.seen) = 2
    /\ SucceededIn(visit.seen) = {1, 2}
    /\ reqs[visit.seen[1].r].idToken # reqs[visit.seen[2].r].idToken
    /\ visit.endpoint # Undefined
    /\ HintsTokenOf(k, visit.seen[2].r)

\* No response carrying the ID token cookie was received from instant t on.
NoneExchangedSince(seen, t) ==
  \A i \in ExchangedIn(seen) : seen[i].at < t

HoldsIdToken(held) == \E h \in held : h.name = "kc_member_id_token"

\* C37: the logout's clearing names the cookie the callback set, by name
\* and by path, so after a logout the browser holds no ID token cookie
\* until another callback sets one, and a logout that follows a logout with
\* no callback in between gets no cookie and sends no id_token_hint.
C37_LogoutClearsTheCallbacksCookie ==
  /\ \A k \in DOMAIN jar.logouts :
       LET visit == jar.logouts[k] IN
       /\ \A h \in visit.held :
            h.name = "kc_member_id_token" =>
              \E i \in DOMAIN visit.resp.cookies :
                /\ visit.resp.cookies[i].name = h.name
                /\ visit.resp.cookies[i].path = h.path
       /\ (k > 1 /\ NoneExchangedSince(visit.seen, jar.logouts[k - 1].at)) =>
            /\ visit.idToken = Undefined
            /\ Len(visit.resp.location) <= 6
  /\ (jar.logouts # <<>>
       /\ NoneExchangedSince(jar.received,
                              jar.logouts[Len(jar.logouts)].at)) =>
       ~HoldsIdToken(jar.cookies)

\* After a callback the first logout carried the hint, and the second,
\* within the lifetime the cookie had, carried none.
C37_Witness ==
  /\ Len(jar.logouts) = 2
  /\ jar.logouts[1].idToken = "id-token-alice"
  /\ jar.logouts[1].endpoint # Undefined
  /\ jar.logouts[2].endpoint # Undefined
  /\ jar.logouts[2].idToken = Undefined
  /\ jar.logouts[2].at < 3600
  /\ jar.logouts[2].seen = jar.logouts[1].seen

(***************************************************************************)
(* The bootstrap.                                                          *)
(***************************************************************************)
\* The request was handled by a route of the application.
Served(q) == q.kind \notin {"none", "refused"}

\* C38: the port is bound, the realm routers are mounted and the startup is
\* marked complete only when both discoveries have returned; a failed
\* discovery ends the process with status 1, the port never bound; so every
\* request that is served finds both providers discovered, a login
\* redirects to the discovered authorization endpoint, and every startup
\* probe that is served answers 200 'started'.
C38_ServesOnlyAfterDiscovery ==
  /\ []( /\ (svc.listening \/ svc.mounted # {} \/ svc.isStartupComplete) =>
              /\ svc.discovered = {"member", "staff"}
              /\ svc.mounted = RealmMounts
              /\ svc.isStartupComplete
              /\ svc.listening
         /\ svc.pc = "exited" =>
              /\ svc.exitCode = 1
              /\ ~svc.listening
              /\ svc.discovered # {"member", "staff"}
              /\ \A r \in Reqs : ~Served(reqs[r])
         /\ \A r \in Reqs :
              LET q == reqs[r] IN
              /\ Served(q) => svc.discovered = {"member", "staff"}
              /\ q.kind = "login" =>
                   /\ q.authEndpoint = svc.memberAuthEndpoint
                   /\ q.authEndpoint # <<>>
              /\ q.kind = "startup" =>
                   q.resp.status = 200 /\ q.resp.body = <<"started">> )
  /\ [][ /\ svc.listening => svc'.listening
         /\ svc.pc = "exited" => svc' = svc ]_vars

\* A request found the port unbound during discovery, and after the start a
\* startup probe was served.
C38_Witness ==
  \E r1, r2 \in Reqs :
    /\ reqs[r1].kind = "refused"
    /\ reqs[r2].kind = "startup" /\ reqs[r2].pc = "done"
    /\ svc.listening

====
